---- MODULE Spec2Model ----
(***************************************************************************)
(* Non-verbal analysis: the per-frame pipeline (pipeline.py,               *)
(* eye_contact_analyzer.py), the session registry (session_manager.py)     *)
(* and the orchestrator (analyzer.py), as a state machine.                 *)
(*                                                                         *)
(* Fixed-point units (Python floats become integers):                      *)
(*   coordinates, face width, EAR   thousandths      (250 = 0.25)          *)
(*   gaze ratios, posture offsets   hundredths       (60 = 0.6)            *)
(*   normalized movement            millionths       (40000 = 0.04)        *)
(*   scores inside the analyzer     1e-4 of a point  (600000 = 60.0)       *)
(*   scores in an envelope          hundredths       (6000 = 60.00),       *)
(*                                  as round(s, 2) leaves them             *)
(* Optional values: None is the empty tuple, Some(v) the 1-tuple <<v>>.    *)
(***************************************************************************)
EXTENDS Integers, Sequences, FiniteSets, TLC

VARIABLES
    sessions,   \* SessionManager.sessions: session id -> SessionState
    ret,        \* what the last operation returned
    lastOp,     \* the last operation: its name, session id, stages run, faces seen
    run,        \* history: per id, length of the current run of consecutive
                \* frames in which the detector saw more than one face
    actives,    \* history: per id, number of active envelopes returned
    connections,        \* app.py: per video_ws handler, whether its socket is
                        \* open and the session_id it was opened for
    transport_sessions  \* app.py `sessions`: session id -> transport record

vars == <<sessions, ret, lastOp, run, actives, connections, transport_sessions>>

\* the transport's variables, which the analyzer's own operations leave alone
tvars == <<connections, transport_sessions>>

None == << >>
Some(v) == <<v>>

----------------------------------------------------------------------------
(* Bounds of the model *)

\* frames per session that may pass the eye-contact stage
MaxProcessed == 2
\* entries of face_width_history per session
MaxHistory == 3
\* multi_face_counter a session may reach under Spec; SpecStreak, with fewer
\* kinds of frame, lets it run up to the threshold
MaxStreak == 1
\* face counts handed to the integrity enforcer on its own
MaxFaceCount == 3
\* frames that reach the eye-contact stage on a session of SpecBlinks, enough
\* for a whole run of multi-face blink frames
MaxBlinkHistory == 15

----------------------------------------------------------------------------
(* Program constants *)

\* IntegrityEnforcer.MULTI_FACE_THRESHOLD
MULTI_FACE_THRESHOLD == 15
\* is_blink_frame(ear, threshold=0.21)
ValidatorBlinkThreshold == 210
\* analyze_eye_contact(context, blink_threshold=0.2)
EyeContactBlinkThreshold == 200

SessionIds == {"s1"}
Reasons == {"multiple_faces_detected", "manual"}

----------------------------------------------------------------------------
(* Arithmetic helpers *)

Min(a, b) == IF a < b THEN a ELSE b
Max(a, b) == IF a > b THEN a ELSE b
Abs(a) == IF a < 0 THEN -a ELSE a

RECURSIVE SqrtFrom(_, _)
SqrtFrom(n, r) == IF (r + 1) * (r + 1) > n THEN r ELSE SqrtFrom(n, r + 1)
\* np.sqrt, to the integer below
Sqrt(n) == SqrtFrom(n, 0)

RECURSIVE Sum(_)
Sum(s) == IF s = << >> THEN 0 ELSE Head(s) + Sum(Tail(s))
\* np.mean of a non-empty list
Mean(s) == Sum(s) \div Len(s)

\* Euclidean distance of two 3-D points
Dist3(p, q) ==
    Sqrt((p[1] - q[1]) * (p[1] - q[1]) + (p[2] - q[2]) * (p[2] - q[2])
         + (p[3] - q[3]) * (p[3] - q[3]))

----------------------------------------------------------------------------
(* validators.py *)

is_blink_frame(ear, threshold) == ear < threshold

is_multi_face_violation(face_count, consecutive_count, threshold) ==
    face_count > 1 /\ consecutive_count >= threshold

is_valid_face_width(face_width) == 0 < face_width /\ face_width < 1000

validate_score_range(score, min_val, max_val) == Max(min_val, Min(max_val, score))

----------------------------------------------------------------------------
(* utils.py *)

\* raw / face_width, in millionths; callers reach it with a valid width only
normalize_movement(raw_movement, face_width) ==
    (raw_movement * 1000000) \div face_width

get_face_width(landmarks) == landmarks.face_width

normalize_posture_alignment(alignment_error, face_width) ==
    normalize_movement(alignment_error, face_width)

calculate_landmark_variance(current_landmarks, previous_key, face_width) ==
    normalize_movement(Dist3(current_landmarks.key, previous_key), face_width)

calculate_nose_movement(current_nose, previous_nose_pos, face_width) ==
    normalize_movement(Dist3(current_nose, previous_nose_pos), face_width)

----------------------------------------------------------------------------
(* session_manager.py: SessionState *)

\* mutant: the temporal memory starts at the frame centre instead of None
NewSessionState_centre ==
    [is_cancelled |-> FALSE,
     cancellation_reason |-> None,
     previous_landmarks |-> Some(<<500, 500, 0>>),
     previous_nose_pos |-> <<500, 500, 0>>,
     face_width_history |-> << >>,
     eye_contact_frames |-> 0,
     total_processed_frames |-> 0,
     multi_face_counter |-> 0,
     facial_engagement_scores |-> << >>,
     posture_scores |-> << >>,
     stability_scores |-> << >>,
     blink_buffer |-> << >>]

NewSessionState ==
    [is_cancelled |-> FALSE,
     cancellation_reason |-> None,
     previous_landmarks |-> None,
     previous_nose_pos |-> None,
     face_width_history |-> << >>,
     eye_contact_frames |-> 0,
     total_processed_frames |-> 0,
     multi_face_counter |-> 0,
     facial_engagement_scores |-> << >>,
     posture_scores |-> << >>,
     stability_scores |-> << >>,
     blink_buffer |-> << >>]

\* mutant: the cancellation flag is not consulted
can_process_frame_always(state) == TRUE

can_process_frame(state) == ~state.is_cancelled
has_sufficient_data_for_stability(state) == state.previous_nose_pos # None
has_sufficient_data_for_engagement(state) == state.previous_landmarks # None

----------------------------------------------------------------------------
(* pipeline.py: PipelineResult *)

success_result(data) ==
    [success |-> TRUE, data |-> data, error |-> None, should_skip_frame |-> FALSE,
     should_cancel_session |-> FALSE, cancellation_reason |-> None]

\* mutant: an error result that still reports success
error_result_asSuccess(error) ==
    [success |-> TRUE, data |-> None, error |-> Some(error),
     should_skip_frame |-> FALSE, should_cancel_session |-> FALSE,
     cancellation_reason |-> None]

error_result(error) ==
    [success |-> FALSE, data |-> None, error |-> Some(error),
     should_skip_frame |-> FALSE, should_cancel_session |-> FALSE,
     cancellation_reason |-> None]

skip_frame_result(reason) ==
    [success |-> TRUE, data |-> Some(reason), error |-> None,
     should_skip_frame |-> TRUE, should_cancel_session |-> FALSE,
     cancellation_reason |-> None]

cancel_session_result(reason) ==
    [success |-> TRUE, data |-> None, error |-> None, should_skip_frame |-> FALSE,
     should_cancel_session |-> TRUE, cancellation_reason |-> Some(reason)]

----------------------------------------------------------------------------
(* Frames: what the transport hands in, with what the two detector         *)
(* collaborators answer for it.                                            *)

Point0 == <<500, 500, 0>>

\* The landmark set of the first face, reduced to what the stages read.
DefaultLandmarks ==
    [face_width |-> 250,            \* distance of landmarks 234 and 454
     ear |-> <<210, 210>>,          \* EAR of the left and the right eye
     gaze |-> <<100, 100, 50, 50>>, \* ratio_left, ratio_right, vert_left, vert_right
     nose |-> Point0,               \* landmark 1
     key |-> Point0]                \* the 9 mouth, eyebrow and jaw landmarks

DefaultFrame ==
    [kind |-> "OK",                 \* None, NotArray, Empty, Not3D, BadChannels, OK
     detect_raises |-> FALSE,       \* face_mesh.process raises
     faces |-> 1,                   \* len(multi_face_landmarks)
     landmarks |-> DefaultLandmarks,\* multi_face_landmarks[0].landmark
     pose |-> None,                 \* pose_landmarks: None or <<offset, tilt>>
     pose_raises |-> FALSE]         \* pose_detector.process raises

FaceCounts == {1, 2}
Ears == {<<180, 180>>, <<200, 210>>, <<210, 210>>}
\* head positions <<nose, key landmarks>>: at rest, and moved
HeadPositions ==
    {<<Point0, Point0>>, <<<<530, 540, 0>>, <<530, 540, 0>>>>}
GazeToward == <<100, 100, 50, 50>>
GazeAside == <<50, 100, 50, 50>>
GazeDown == <<100, 100, 50, 10>>
\* raw nose-to-shoulder-centre offset and raw shoulder height difference
PoseGood == Some(<<50, 25>>)
PoseOffCentre == Some(<<70, 25>>)
PoseTilted == Some(<<50, 40>>)

InvalidFrames ==
    {[DefaultFrame EXCEPT !.kind = k] :
        k \in {"None", "NotArray", "Empty", "Not3D", "BadChannels"}}

UndetectedFrames ==
    {[DefaultFrame EXCEPT !.detect_raises = TRUE], [DefaultFrame EXCEPT !.faces = 0]}

BadWidthFrames ==
    {[DefaultFrame EXCEPT !.faces = n, !.landmarks.face_width = w] :
        n \in FaceCounts, w \in {0, 1000}}

EarFrames ==
    {[DefaultFrame EXCEPT !.faces = n, !.landmarks.ear = e] :
        n \in FaceCounts, e \in Ears}

FullFrames ==
    {[DefaultFrame EXCEPT !.faces = n,
                          !.landmarks.gaze = g,
                          !.landmarks.nose = h[1],
                          !.landmarks.key = h[2],
                          !.pose = b] :
        n \in FaceCounts, g \in {GazeToward, GazeAside},
        h \in HeadPositions,
        b \in {None, PoseGood, PoseOffCentre}}

OtherFrames ==
    {[DefaultFrame EXCEPT !.landmarks.gaze = GazeDown],
     [DefaultFrame EXCEPT !.pose = PoseOffCentre],
     [DefaultFrame EXCEPT !.pose = PoseTilted],
     [DefaultFrame EXCEPT !.pose_raises = TRUE]}

\* the frames of Spec; the frames that differ in gaze, head position and pose
\* have one face, the frames that differ in EAR have one face or two
Frames ==
    {f \in InvalidFrames : f.kind = "None"}
        \cup {f \in BadWidthFrames : f.landmarks.face_width = 0 /\ f.faces = 2}
        \cup EarFrames
        \cup {f \in FullFrames : f.faces = 1 /\ f.pose \in {None, PoseGood}}
        \cup OtherFrames

\* the frames of SpecStreak: those that end before the eye-contact stage counts them
StreakFrames ==
    InvalidFrames \cup UndetectedFrames \cup BadWidthFrames
        \cup {f \in EarFrames : f.landmarks.ear = <<180, 180>>}

----------------------------------------------------------------------------
(* pipeline.py: PipelineContext and the stages.  A stage takes the context *)
(* (which holds the session state it mutates) and returns the context as   *)
(* it leaves it together with its PipelineResult.                          *)

PipelineContext(frame, session_state) ==
    [frame |-> frame,
     session_state |-> session_state,
     rgb_frame |-> None,
     face_results |-> None,
     landmarks |-> None,
     face_width |-> None,
     pose_results |-> None,
     eye_contact_detected |-> None,
     facial_engagement |-> None,
     posture_score |-> None,
     stability_score |-> None]

Stage(context, result) == [context |-> context, result |-> result]

\* mutant: the size of the array is not checked
validate_frame_noSizeCheck(frame) ==
    IF frame.kind = "None" THEN error_result("Frame is None")
    ELSE IF frame.kind = "NotArray" THEN error_result("Frame must be numpy array")
    ELSE IF frame.kind = "Not3D" THEN error_result("Frame must be 3D array (H, W, C)")
    ELSE success_result(None)

validate_frame(frame) ==
    IF frame.kind = "None" THEN error_result("Frame is None")
    ELSE IF frame.kind = "NotArray" THEN error_result("Frame must be numpy array")
    ELSE IF frame.kind = "Empty" THEN error_result("Frame is empty")
    ELSE IF frame.kind = "Not3D" THEN error_result("Frame must be 3D array (H, W, C)")
    ELSE success_result(None)

convert_to_rgb(context) ==
    IF context.frame.kind = "BadChannels"
    THEN Stage(context, error_result("Failed to convert frame to RGB"))
    ELSE Stage([context EXCEPT !.rgb_frame = Some("rgb")], success_result(None))

detect_faces(context) ==
    IF context.rgb_frame = None
    THEN Stage(context, error_result("RGB frame not available"))
    ELSE IF context.frame.detect_raises
    THEN Stage(context, error_result("Face detection failed"))
    ELSE LET c == [context EXCEPT !.face_results = Some(context.frame.faces)]
         IN  IF context.frame.faces = 0
             THEN Stage(c, error_result("No face detected"))
             ELSE Stage(c, success_result(None))

\* mutant: a frame with at most one face leaves the counter as it is
enforce_single_face_rule_noReset(context, multi_face_threshold) ==
    IF context.face_results = None
    THEN Stage(context, error_result("Face results not available"))
    ELSE LET face_count == context.face_results[1]
             counter == context.session_state.multi_face_counter
         IN  IF face_count > 1
             THEN LET c == [context EXCEPT !.session_state.multi_face_counter = counter + 1]
                  IN  IF counter + 1 >= multi_face_threshold
                      THEN Stage(c, cancel_session_result("multiple_faces_detected"))
                      ELSE Stage(c, success_result(None))
             ELSE Stage(context, success_result(None))

\* mutant: the enforcer signals only once the counter has passed the threshold
check_multi_face_violation_strict(face_count, state, multi_face_threshold) ==
    IF face_count > 1
    THEN LET counted == [state EXCEPT !.multi_face_counter = @ + 1]
         IN  [state |-> counted,
              reason |-> IF counted.multi_face_counter > multi_face_threshold
                         THEN Some("multiple_faces_detected") ELSE None]
    ELSE [state |-> [state EXCEPT !.multi_face_counter = 0], reason |-> None]

\* IntegrityEnforcer.check_multi_face_violation: the state it leaves and the
\* cancellation reason it returns
check_multi_face_violation(face_count, state, multi_face_threshold) ==
    IF face_count > 1
    THEN LET counted == [state EXCEPT !.multi_face_counter = @ + 1]
         IN  [state |-> counted,
              reason |-> IF counted.multi_face_counter >= multi_face_threshold
                         THEN Some("multiple_faces_detected") ELSE None]
    ELSE [state |-> [state EXCEPT !.multi_face_counter = 0], reason |-> None]

\* mutant: cancellation only once the counter has passed the threshold
enforce_single_face_rule_late(context, multi_face_threshold) ==
    IF context.face_results = None
    THEN Stage(context, error_result("Face results not available"))
    ELSE LET face_count == context.face_results[1]
             counter == context.session_state.multi_face_counter
         IN  IF face_count > 1
             THEN LET c == [context EXCEPT !.session_state.multi_face_counter = counter + 1]
                  IN  IF counter + 1 > multi_face_threshold
                      THEN Stage(c, cancel_session_result("multiple_faces_detected"))
                      ELSE Stage(c, success_result(None))
             ELSE Stage([context EXCEPT !.session_state.multi_face_counter = 0],
                        success_result(None))

\* mutant: a frame whose first face is blinking is not counted
enforce_single_face_rule_skipsBlinks(context, multi_face_threshold) ==
    IF context.face_results = None
    THEN Stage(context, error_result("Face results not available"))
    ELSE LET face_count == context.face_results[1]
             counter == context.session_state.multi_face_counter
             ear == context.frame.landmarks.ear
         IN  IF face_count > 1 /\ (ear[1] + ear[2]) \div 2 >= EyeContactBlinkThreshold
             THEN LET c == [context EXCEPT !.session_state.multi_face_counter = counter + 1]
                  IN  IF counter + 1 >= multi_face_threshold
                      THEN Stage(c, cancel_session_result("multiple_faces_detected"))
                      ELSE Stage(c, success_result(None))
             ELSE IF face_count > 1
             THEN Stage(context, success_result(None))
             ELSE Stage([context EXCEPT !.session_state.multi_face_counter = 0],
                        success_result(None))

\* mutant: cancellation one frame before the counter reaches the threshold
enforce_single_face_rule_early(context, multi_face_threshold) ==
    IF context.face_results = None
    THEN Stage(context, error_result("Face results not available"))
    ELSE LET face_count == context.face_results[1]
             counter == context.session_state.multi_face_counter
         IN  IF face_count > 1
             THEN LET c == [context EXCEPT !.session_state.multi_face_counter = counter + 1]
                  IN  IF counter + 2 >= multi_face_threshold
                      THEN Stage(c, cancel_session_result("multiple_faces_detected"))
                      ELSE Stage(c, success_result(None))
             ELSE Stage([context EXCEPT !.session_state.multi_face_counter = 0],
                        success_result(None))

enforce_single_face_rule(context, multi_face_threshold) ==
    IF context.face_results = None
    THEN Stage(context, error_result("Face results not available"))
    ELSE LET face_count == context.face_results[1]
             counter == context.session_state.multi_face_counter
         IN  IF face_count > 1
             THEN LET c == [context EXCEPT !.session_state.multi_face_counter = counter + 1]
                  IN  IF counter + 1 >= multi_face_threshold
                      THEN Stage(c, cancel_session_result("multiple_faces_detected"))
                      ELSE Stage(c, success_result(None))
             ELSE Stage([context EXCEPT !.session_state.multi_face_counter = 0],
                        success_result(None))

\* mutant: landmarks are extracted only when exactly one face was detected
extract_landmarks_singleFaceOnly(context) ==
    IF context.face_results # Some(1)
    THEN Stage(context, error_result("No face landmarks available"))
    ELSE Stage([context EXCEPT !.landmarks = Some(context.frame.landmarks)],
               success_result(None))

extract_landmarks(context) ==
    IF context.face_results = None \/ context.face_results = Some(0)
    THEN Stage(context, error_result("No face landmarks available"))
    ELSE Stage([context EXCEPT !.landmarks = Some(context.frame.landmarks)],
               success_result(None))

\* mutant: an invalid face width is treated as a violation that ends the session
normalize_by_face_size_cancels(context) ==
    LET face_width == get_face_width(context.landmarks[1])
    IN  IF ~is_valid_face_width(face_width)
        THEN Stage([context EXCEPT !.session_state.is_cancelled = TRUE],
                   error_result("Invalid face width"))
        ELSE Stage([context EXCEPT
                       !.face_width = Some(face_width),
                       !.session_state.face_width_history = Append(@, face_width)],
                   success_result(None))

normalize_by_face_size(context) ==
    IF context.landmarks = None
    THEN Stage(context, error_result("Landmarks not available"))
    ELSE LET face_width == get_face_width(context.landmarks[1])
         IN  IF ~is_valid_face_width(face_width)
             THEN Stage(context, error_result("Invalid face width"))
             ELSE Stage([context EXCEPT
                            !.face_width = Some(face_width),
                            !.session_state.face_width_history = Append(@, face_width)],
                        success_result(None))

----------------------------------------------------------------------------
(* eye_contact_analyzer.py *)

_estimate_gaze_normalized(landmarks, face_width) ==
    LET ratio_left == landmarks.gaze[1]
        ratio_right == landmarks.gaze[2]
        vert_left == landmarks.gaze[3]
        vert_right == landmarks.gaze[4]
        horizontal_ok == 60 < ratio_left /\ ratio_left < 160
                         /\ 60 < ratio_right /\ ratio_right < 160
        vertical_ok == 20 < vert_left /\ vert_left < 80
                       /\ 20 < vert_right /\ vert_right < 80
    IN  horizontal_ok /\ vertical_ok

\* mutant: total_processed_frames is counted only when there is no eye contact
update_counters_either(context, gaze_detected) ==
    [context EXCEPT
        !.session_state.eye_contact_frames = IF gaze_detected THEN @ + 1 ELSE @,
        !.session_state.total_processed_frames = IF gaze_detected THEN @ ELSE @ + 1,
        !.eye_contact_detected = Some(gaze_detected)]

\* mutant: total_processed_frames is counted inside the gaze branch
update_counters_gazeOnly(context, gaze_detected) ==
    [context EXCEPT
        !.session_state.eye_contact_frames = IF gaze_detected THEN @ + 1 ELSE @,
        !.session_state.total_processed_frames = IF gaze_detected THEN @ + 1 ELSE @,
        !.eye_contact_detected = Some(gaze_detected)]

\* mutant: the frame is never counted in total_processed_frames
update_counters_neverTotal(context, gaze_detected) ==
    [context EXCEPT
        !.session_state.eye_contact_frames =
            IF gaze_detected /\ @ < context.session_state.total_processed_frames
            THEN @ + 1 ELSE @,
        !.eye_contact_detected = Some(gaze_detected)]

\* Step 5 of analyze_eye_contact: update counters only if not blinking
update_counters(context, gaze_detected) ==
    [context EXCEPT
        !.session_state.eye_contact_frames = IF gaze_detected THEN @ + 1 ELSE @,
        !.session_state.total_processed_frames = @ + 1,
        !.eye_contact_detected = Some(gaze_detected)]

\* mutant: a blink frame is counted in total_processed_frames before it is skipped
analyze_eye_contact_countsBlink(context, blink_threshold) ==
    LET landmarks == context.landmarks[1]
        avg_ear == (landmarks.ear[1] + landmarks.ear[2]) \div 2
    IN  IF is_blink_frame(avg_ear, blink_threshold)
        THEN Stage([context EXCEPT !.session_state.total_processed_frames = @ + 1],
                   skip_frame_result("blink_detected"))
        ELSE Stage(update_counters(context,
                       _estimate_gaze_normalized(landmarks, context.face_width[1])),
                   success_result(None))

\* mutant: a blink frame is recorded in the blink buffer before it is skipped
analyze_eye_contact_buffersBlink(context, blink_threshold) ==
    LET landmarks == context.landmarks[1]
        avg_ear == (landmarks.ear[1] + landmarks.ear[2]) \div 2
    IN  IF is_blink_frame(avg_ear, blink_threshold)
        THEN Stage([context EXCEPT !.session_state.blink_buffer = Append(@, TRUE)],
                   skip_frame_result("blink_detected"))
        ELSE Stage(update_counters(context,
                       _estimate_gaze_normalized(landmarks, context.face_width[1])),
                   success_result(None))

analyze_eye_contact(context, blink_threshold) ==
    IF context.landmarks = None
    THEN Stage(context, error_result("Landmarks not available for eye contact analysis"))
    ELSE IF context.face_width = None
    THEN Stage(context, error_result("Face width not available for normalization"))
    ELSE LET landmarks == context.landmarks[1]
             left_ear == landmarks.ear[1]
             right_ear == landmarks.ear[2]
             avg_ear == (left_ear + right_ear) \div 2
         IN  IF is_blink_frame(avg_ear, blink_threshold)
             THEN Stage(context, skip_frame_result("blink_detected"))
             ELSE LET gaze_detected ==
                          _estimate_gaze_normalized(landmarks, context.face_width[1])
                  IN  Stage(update_counters(context, gaze_detected),
                            success_result(None))

get_eye_contact_score(session_state) ==
    IF session_state.total_processed_frames = 0
    THEN 0
    ELSE (session_state.eye_contact_frames * 1000000)
             \div session_state.total_processed_frames

----------------------------------------------------------------------------
(* pipeline.py: the stages after eye contact *)

\* mutant: the expression stage stores the landmarks as previous once it has
\* used them
analyze_facial_expression_commitsEarly(context) ==
    IF ~has_sufficient_data_for_engagement(context.session_state)
    THEN Stage(context, success_result(None))
    ELSE LET normalized_engagement ==
                 calculate_landmark_variance(context.landmarks[1],
                     context.session_state.previous_landmarks[1],
                     context.face_width[1])
         IN  Stage([context EXCEPT
                        !.session_state.facial_engagement_scores =
                            Append(@, normalized_engagement),
                        !.session_state.previous_landmarks =
                            Some(context.landmarks[1].key),
                        !.facial_engagement = Some(normalized_engagement)],
                   success_result(None))

analyze_facial_expression(context) ==
    IF context.landmarks = None
    THEN Stage(context, error_result("Landmarks not available"))
    ELSE IF context.face_width = None
    THEN Stage(context, error_result("Face width not available"))
    ELSE IF ~has_sufficient_data_for_engagement(context.session_state)
    THEN Stage(context, success_result(None))
    ELSE LET normalized_engagement ==
                 calculate_landmark_variance(context.landmarks[1],
                     context.session_state.previous_landmarks[1],
                     context.face_width[1])
         IN  Stage([context EXCEPT
                        !.session_state.facial_engagement_scores =
                            Append(@, normalized_engagement),
                        !.facial_engagement = Some(normalized_engagement)],
                   success_result(None))

\* mutant: a frame without a detected pose is an error of the posture stage
analyze_posture_noPoseIsError(context) ==
    IF context.rgb_frame = None
    THEN Stage(context, error_result("RGB frame not available"))
    ELSE IF context.face_width = None
    THEN Stage(context, error_result("Face width not available for normalization"))
    ELSE IF context.frame.pose_raises
    THEN Stage(context, error_result("Failed to analyze posture"))
    ELSE LET c == [context EXCEPT !.pose_results = Some(context.frame.pose)]
         IN  IF context.frame.pose = None
             THEN Stage(c, error_result("No pose detected"))
             ELSE LET raw_alignment_error == context.frame.pose[1][1]
                      raw_shoulder_tilt == context.frame.pose[1][2]
                      normalized_alignment ==
                          normalize_posture_alignment(raw_alignment_error,
                                                      context.face_width[1])
                      normalized_tilt ==
                          normalize_posture_alignment(raw_shoulder_tilt,
                                                      context.face_width[1])
                      is_good_posture ==
                          normalized_alignment < 250000 /\ normalized_tilt < 150000
                      score == IF is_good_posture THEN 1000000 ELSE 0
                  IN  Stage([c EXCEPT
                                 !.session_state.posture_scores = Append(@, score),
                                 !.posture_score = Some(score)],
                            success_result(None))

\* mutant: only the latest posture score is kept
analyze_posture_keepsLatest(context) ==
    IF context.rgb_frame = None
    THEN Stage(context, error_result("RGB frame not available"))
    ELSE IF context.face_width = None
    THEN Stage(context, error_result("Face width not available for normalization"))
    ELSE IF context.frame.pose_raises
    THEN Stage(context, error_result("Failed to analyze posture"))
    ELSE LET c == [context EXCEPT !.pose_results = Some(context.frame.pose)]
         IN  IF context.frame.pose = None
             THEN Stage(c, success_result(None))
             ELSE LET raw_alignment_error == context.frame.pose[1][1]
                      raw_shoulder_tilt == context.frame.pose[1][2]
                      normalized_alignment ==
                          normalize_posture_alignment(raw_alignment_error,
                                                      context.face_width[1])
                      normalized_tilt ==
                          normalize_posture_alignment(raw_shoulder_tilt,
                                                      context.face_width[1])
                      is_good_posture ==
                          normalized_alignment < 250000 /\ normalized_tilt < 150000
                      score == IF is_good_posture THEN 1000000 ELSE 0
                  IN  Stage([c EXCEPT
                                 !.session_state.posture_scores = <<score>>,
                                 !.posture_score = Some(score)],
                            success_result(None))

analyze_posture(context) ==
    IF context.rgb_frame = None
    THEN Stage(context, error_result("RGB frame not available"))
    ELSE IF context.face_width = None
    THEN Stage(context, error_result("Face width not available for normalization"))
    ELSE IF context.frame.pose_raises
    THEN Stage(context, error_result("Failed to analyze posture"))
    ELSE LET c == [context EXCEPT !.pose_results = Some(context.frame.pose)]
         IN  IF context.frame.pose = None
             THEN Stage(c, success_result(None))
             ELSE LET raw_alignment_error == context.frame.pose[1][1]
                      raw_shoulder_tilt == context.frame.pose[1][2]
                      normalized_alignment ==
                          normalize_posture_alignment(raw_alignment_error,
                                                      context.face_width[1])
                      normalized_tilt ==
                          normalize_posture_alignment(raw_shoulder_tilt,
                                                      context.face_width[1])
                      is_good_posture ==
                          normalized_alignment < 250000 /\ normalized_tilt < 150000
                      score == IF is_good_posture THEN 1000000 ELSE 0
                  IN  Stage([c EXCEPT
                                 !.session_state.posture_scores = Append(@, score),
                                 !.posture_score = Some(score)],
                            success_result(None))

\* mutant: the movement is not scaled by 10 before it is taken off the score
analyze_stability_unscaled(context) ==
    IF context.landmarks = None
    THEN Stage(context, error_result("Landmarks not available"))
    ELSE IF context.face_width = None
    THEN Stage(context, error_result("Face width not available"))
    ELSE IF ~has_sufficient_data_for_stability(context.session_state)
    THEN Stage(context, success_result(None))
    ELSE LET nose == context.landmarks[1].nose
             normalized_movement ==
                 calculate_nose_movement(nose,
                     context.session_state.previous_nose_pos, context.face_width[1])
             stability_score ==
                 validate_score_range(
                     1000000 - Min(1000000, normalized_movement), 0, 1000000)
         IN  Stage([context EXCEPT
                        !.session_state.stability_scores = Append(@, stability_score),
                        !.stability_score = Some(stability_score)],
                   success_result(None))

analyze_stability(context) ==
    IF context.landmarks = None
    THEN Stage(context, error_result("Landmarks not available"))
    ELSE IF context.face_width = None
    THEN Stage(context, error_result("Face width not available"))
    ELSE IF ~has_sufficient_data_for_stability(context.session_state)
    THEN Stage(context, success_result(None))
    ELSE LET nose == context.landmarks[1].nose
             normalized_movement ==
                 calculate_nose_movement(nose,
                     context.session_state.previous_nose_pos, context.face_width[1])
             stability_score ==
                 validate_score_range(
                     1000000 - Min(1000000, normalized_movement * 10), 0, 1000000)
         IN  Stage([context EXCEPT
                        !.session_state.stability_scores = Append(@, stability_score),
                        !.stability_score = Some(stability_score)],
                   success_result(None))

\* mutant: the commit stores the landmarks but not the nose position
update_session_state_landmarksOnly(context) ==
    IF context.landmarks = None
    THEN Stage(context, error_result("Landmarks not available"))
    ELSE Stage([context EXCEPT
                    !.session_state.previous_landmarks = Some(context.landmarks[1].key)],
               success_result(None))

update_session_state(context) ==
    IF context.landmarks = None
    THEN Stage(context, error_result("Landmarks not available"))
    ELSE Stage([context EXCEPT
                    !.session_state.previous_landmarks = Some(context.landmarks[1].key),
                    !.session_state.previous_nose_pos = context.landmarks[1].nose],
               success_result(None))

----------------------------------------------------------------------------
(* session_manager.py: SessionManager, on the map of sessions *)

\* mutant: the session is created anew on every call
get_or_create_session_resets(sess, session_id) ==
    [i \in DOMAIN sess \cup {session_id} |->
        IF i = session_id THEN NewSessionState ELSE sess[i]]

\* mutant: a cancelled session is replaced by a fresh one when it is asked for
get_or_create_session_revives(sess, session_id) ==
    IF session_id \notin DOMAIN sess
    THEN [i \in DOMAIN sess \cup {session_id} |->
             IF i = session_id THEN NewSessionState ELSE sess[i]]
    ELSE IF sess[session_id].is_cancelled
    THEN [sess EXCEPT ![session_id] = NewSessionState]
    ELSE sess

get_or_create_session(sess, session_id) ==
    IF session_id \notin DOMAIN sess
    THEN [i \in DOMAIN sess \cup {session_id} |->
             IF i = session_id THEN NewSessionState ELSE sess[i]]
    ELSE sess

get_session(sess, session_id) == get_or_create_session(sess, session_id)

\* mutant: a session is valid as soon as it exists
validate_session_existsOnly(sess, session_id) == session_id \in DOMAIN sess

validate_session(sess, session_id) ==
    IF session_id \notin DOMAIN sess THEN FALSE ELSE can_process_frame(sess[session_id])

\* mutant: cancelling an unknown id leaves a cancelled entry behind
cancel_session_creates(sess, session_id, reason) ==
    [i \in DOMAIN sess \cup {session_id} |->
        [(IF i \in DOMAIN sess THEN sess[i] ELSE NewSessionState) EXCEPT
            !.is_cancelled = IF i = session_id THEN TRUE ELSE @,
            !.cancellation_reason = IF i = session_id THEN Some(reason) ELSE @]]

\* mutant: the cancellation flag is set on every session of the registry
cancel_session_all(sess, session_id, reason) ==
    IF session_id \in DOMAIN sess
    THEN [i \in DOMAIN sess |->
             [sess[i] EXCEPT !.is_cancelled = TRUE,
                             !.cancellation_reason = Some(reason)]]
    ELSE sess

\* mutant: cancelling replaces the session state by a blank cancelled one
cancel_session_wipes(sess, session_id, reason) ==
    IF session_id \in DOMAIN sess
    THEN [sess EXCEPT ![session_id] =
              [NewSessionState EXCEPT !.is_cancelled = TRUE,
                                      !.cancellation_reason = Some(reason)]]
    ELSE sess

cancel_session(sess, session_id, reason) ==
    IF session_id \in DOMAIN sess
    THEN [sess EXCEPT ![session_id].is_cancelled = TRUE,
                      ![session_id].cancellation_reason = Some(reason)]
    ELSE sess

is_cancelled(sess, session_id) ==
    IF session_id \notin DOMAIN sess THEN FALSE ELSE sess[session_id].is_cancelled

\* mutant: a cancelled session is kept when its deletion is asked for
delete_session_keepsCancelled(sess, session_id) ==
    IF session_id \in DOMAIN sess /\ ~sess[session_id].is_cancelled
    THEN [i \in DOMAIN sess \ {session_id} |-> sess[i]]
    ELSE sess

delete_session(sess, session_id) ==
    IF session_id \in DOMAIN sess
    THEN [i \in DOMAIN sess \ {session_id} |-> sess[i]]
    ELSE sess

\* time.time() - start_time: the clock is not modelled, the seconds elapsed are
\* one opaque value
get_session_duration(sess, session_id) ==
    IF session_id \notin DOMAIN sess THEN None ELSE Some("elapsed")

----------------------------------------------------------------------------
(* models.py and analyzer.py: the output envelopes *)

NullScores ==
    [eye_contact |-> None, facial_expression |-> None, posture |-> None,
     stability |-> None, final_non_verbal_score |-> None]

\* the pydantic validator of NonVerbalScores: a score is None or within [0, 100]
validate_score_range_model(v) == v = None \/ ~(v[1] < 0 \/ v[1] > 10000)

\* round(s, 2) if s is not None else None
round_score(s) == IF s = None THEN None ELSE Some((s[1] + 50) \div 100)

\* mutant: a missing component counts as 0 in the weighted sum
final_score_partial(eye_contact_score, expr_score, posture_score, stability_score) ==
    LET val(s) == IF s = None THEN 0 ELSE s[1]
    IN  IF eye_contact_score # None
        THEN Some((35 * val(eye_contact_score) + 25 * val(expr_score)
                   + 25 * val(posture_score) + 15 * val(stability_score)) \div 100)
        ELSE None

\* 0.35 * eye + 0.25 * expression + 0.25 * posture + 0.15 * stability
final_score(eye_contact_score, expr_score, posture_score, stability_score) ==
    IF eye_contact_score # None /\ expr_score # None /\ posture_score # None
       /\ stability_score # None
    THEN Some((35 * eye_contact_score[1] + 25 * expr_score[1] + 25 * posture_score[1]
               + 15 * stability_score[1]) \div 100)
    ELSE None

\* mutant: the scaled engagement is not capped at 100
expression_score_uncapped(facial_engagement_scores) ==
    IF Len(facial_engagement_scores) > 0
    THEN Some(Mean(facial_engagement_scores) * 50)
    ELSE None

\* min(100, avg_engagement * 5000)
expression_score(facial_engagement_scores) ==
    IF Len(facial_engagement_scores) > 0
    THEN Some(Min(1000000, Mean(facial_engagement_scores) * 50))
    ELSE None

\* mutant: a missing component is compared as if it were 0
insights_for_nullAsZero(eye_contact_score, posture_score, stability_score, expr_score) ==
    LET val(x) == IF x = None THEN 0 ELSE x[1]
    IN  (IF val(eye_contact_score) < 600000
         THEN <<"Eye contact was inconsistent">> ELSE << >>)
        \o (IF val(posture_score) < 600000
            THEN <<"Posture needs improvement">> ELSE << >>)
        \o (IF val(stability_score) < 600000
            THEN <<"Frequent movement detected; try to remain still">> ELSE << >>)
        \o (IF val(expr_score) < 300000
            THEN <<"Facial engagement appears low">> ELSE << >>)

\* the insights list: one independent, null-safe test per component
insights_for(eye_contact_score, posture_score, stability_score, expr_score) ==
    (IF eye_contact_score # None /\ eye_contact_score[1] < 600000
     THEN <<"Eye contact was inconsistent">> ELSE << >>)
    \o (IF posture_score # None /\ posture_score[1] < 600000
        THEN <<"Posture needs improvement">> ELSE << >>)
    \o (IF stability_score # None /\ stability_score[1] < 600000
        THEN <<"Frequent movement detected; try to remain still">> ELSE << >>)
    \o (IF expr_score # None /\ expr_score[1] < 300000
        THEN <<"Facial engagement appears low">> ELSE << >>)

_generate_analysis_output(state) ==
    LET eye_contact_score ==
            IF state.total_processed_frames > 0
            THEN Some(get_eye_contact_score(state)) ELSE None
        expr_score == expression_score(state.facial_engagement_scores)
        posture_score ==
            IF Len(state.posture_scores) > 0
            THEN Some(Mean(state.posture_scores)) ELSE None
        stability_score ==
            IF Len(state.stability_scores) > 0
            THEN Some(Mean(state.stability_scores)) ELSE None
        final == final_score(eye_contact_score, expr_score, posture_score,
                             stability_score)
        scores ==
            [eye_contact |-> round_score(eye_contact_score),
             facial_expression |-> round_score(expr_score),
             posture |-> round_score(posture_score),
             stability |-> round_score(stability_score),
             final_non_verbal_score |-> round_score(final)]
        insights == insights_for(eye_contact_score, posture_score,
                                 stability_score, expr_score)
    IN  IF \A k \in DOMAIN scores : validate_score_range_model(scores[k])
        THEN [session_status |-> "active", reason |-> None,
              non_verbal_scores |-> scores, insights |-> insights]
        ELSE [session_status |-> "ValidationError", reason |-> None,
              non_verbal_scores |-> scores, insights |-> << >>]

_generate_insufficient_data_output(reason) ==
    [session_status |-> "insufficient_data", reason |-> reason,
     non_verbal_scores |-> NullScores,
     insights |-> <<"Insufficient data to compute metrics">>]

_generate_cancelled_output(reason) ==
    [session_status |-> "cancelled", reason |-> reason,
     non_verbal_scores |-> NullScores,
     insights |-> <<"Session cancelled due to integrity violation">>]

\* mutant: the skipped-frame envelope carries an insight of its own
_generate_skipped_frame_output_withInsight(reason) ==
    [session_status |-> "frame_skipped", reason |-> reason,
     non_verbal_scores |-> NullScores, insights |-> <<"Frame skipped">>]

_generate_skipped_frame_output(reason) ==
    [session_status |-> "frame_skipped", reason |-> reason,
     non_verbal_scores |-> NullScores, insights |-> << >>]

----------------------------------------------------------------------------
(* analyzer.py: NonVerbalAnalyzer.process_frame *)

StageNames ==
    <<"validate_frame", "convert_to_rgb", "detect_faces", "enforce_single_face_rule",
      "extract_landmarks", "normalize_by_face_size", "analyze_eye_contact",
      "analyze_facial_expression", "analyze_posture", "analyze_stability",
      "update_session_state">>

\* What a call leaves behind: the sessions with the state of session_id as the
\* stages mutated it, the envelope returned, and the stages that ran.
Return(sess, session_id, state, out, n) ==
    [sessions |-> [sess EXCEPT ![session_id] = state],
     out |-> out,
     stages |-> SubSeq(StageNames, 1, n)]

process_frame(sess0, session_id, frame) ==
    LET sess == get_or_create_session(sess0, session_id)
        state == sess[session_id]
    IN
    IF ~can_process_frame(state)
    THEN Return(sess, session_id, state,
                _generate_cancelled_output(state.cancellation_reason), 0)
    ELSE
    LET r1 == validate_frame(frame) IN
    IF ~r1.success
    THEN Return(sess, session_id, state, _generate_insufficient_data_output(r1.error), 1)
    ELSE
    LET s2 == convert_to_rgb(PipelineContext(frame, state)) IN
    IF ~s2.result.success
    THEN Return(sess, session_id, s2.context.session_state,
                _generate_insufficient_data_output(s2.result.error), 2)
    ELSE
    LET s3 == detect_faces(s2.context) IN
    IF ~s3.result.success
    THEN Return(sess, session_id, s3.context.session_state,
                _generate_insufficient_data_output(s3.result.error), 3)
    ELSE
    LET s4 == enforce_single_face_rule(s3.context, MULTI_FACE_THRESHOLD) IN
    IF s4.result.should_cancel_session
    THEN LET written == [sess EXCEPT ![session_id] = s4.context.session_state]
             cancelled == cancel_session(written, session_id,
                                         s4.result.cancellation_reason[1])
         IN  Return(cancelled, session_id, cancelled[session_id],
                    _generate_cancelled_output(s4.result.cancellation_reason), 4)
    ELSE
    LET s5 == extract_landmarks(s4.context) IN
    IF ~s5.result.success
    THEN Return(sess, session_id, s5.context.session_state,
                _generate_insufficient_data_output(s5.result.error), 5)
    ELSE
    LET s6 == normalize_by_face_size(s5.context) IN
    IF ~s6.result.success
    THEN Return(sess, session_id, s6.context.session_state,
                _generate_insufficient_data_output(s6.result.error), 6)
    ELSE
    LET s7 == analyze_eye_contact(s6.context, EyeContactBlinkThreshold) IN
    IF ~s7.result.success
    THEN Return(sess, session_id, s7.context.session_state,
                _generate_insufficient_data_output(s7.result.error), 7)
    ELSE IF s7.result.should_skip_frame
    THEN Return(sess, session_id, s7.context.session_state,
                _generate_skipped_frame_output(s7.result.data), 7)
    ELSE
    LET s8 == analyze_facial_expression(s7.context) IN
    IF ~s8.result.success
    THEN Return(sess, session_id, s8.context.session_state,
                _generate_insufficient_data_output(s8.result.error), 8)
    ELSE
    LET s9 == analyze_posture(s8.context) IN
    IF ~s9.result.success
    THEN Return(sess, session_id, s9.context.session_state,
                _generate_insufficient_data_output(s9.result.error), 9)
    ELSE
    LET s10 == analyze_stability(s9.context) IN
    IF ~s10.result.success
    THEN Return(sess, session_id, s10.context.session_state,
                _generate_insufficient_data_output(s10.result.error), 10)
    ELSE
    LET s11 == update_session_state(s10.context) IN
    IF ~s11.result.success
    THEN Return(sess, session_id, s11.context.session_state,
                _generate_insufficient_data_output(s11.result.error), 11)
    ELSE Return(sess, session_id, s11.context.session_state,
                _generate_analysis_output(s11.context.session_state), 11)

\* NonVerbalAnalyzer.get_session_summary: the sessions after the call and the
\* dictionary returned
get_session_summary(sess, session_id) ==
    IF ~validate_session(sess, session_id)
    THEN [sessions |-> sess, out |-> [error |-> "Session not found or invalid"]]
    ELSE LET after == get_session(sess, session_id)
             state == after[session_id]
             duration == get_session_duration(after, session_id)
         IN  [sessions |-> after,
              out |-> [session_id |-> session_id,
                       duration_seconds |-> duration,
                       total_frames_processed |-> state.total_processed_frames,
                       eye_contact_frames |-> state.eye_contact_frames,
                       is_cancelled |-> state.is_cancelled,
                       cancellation_reason |-> state.cancellation_reason]]

----------------------------------------------------------------------------
(* The state machine *)

\* ---------------------------------------------------------------------------
\* The WebSocket transport (app.py)
\* ---------------------------------------------------------------------------

\* the video_ws coroutines that can be alive at once
Handlers == {"h1", "h2"}

\* a handler whose socket is not open
Closed == [open |-> FALSE, session_id |-> ""]

\* the record video_ws stores for its session_id right after accept()
NewTransportRecord ==
    [frame_count |-> 0, scores_history |-> << >>, last_valid_scores |-> None]

\* the record after a decodable frame was processed with this result: the frame
\* is counted, and the scores of an active envelope with a final score are kept
store_result(record, out) ==
    LET counted == [record EXCEPT !.frame_count = @ + 1]
    IN  IF out.session_status = "active"
           /\ out.non_verbal_scores.final_non_verbal_score # None
        THEN [counted EXCEPT
                 !.scores_history = Append(@, out.non_verbal_scores),
                 !.last_valid_scores = Some(out.non_verbal_scores)]
        ELSE counted

NoOp ==
    [op |-> "init", id |-> "", stages |-> << >>, faces |-> None, avg_ear |-> None,
     counter_before |-> None, frame |-> None]

Init ==
    /\ sessions = [i \in {} |-> NewSessionState]
    /\ ret = None
    /\ lastOp = NoOp
    /\ run = [i \in SessionIds |-> 0]
    /\ actives = [i \in SessionIds |-> 0]
    /\ connections = [h \in Handlers |-> Closed]
    /\ transport_sessions = [i \in {} |-> NewTransportRecord]

\* the session state a call for id starts from
StateBefore(id) == get_or_create_session(sessions, id)[id]

\* the faces the detector reported for the frame, when it was asked and answered
FacesSeen(frame, stages) ==
    IF Len(stages) >= 3 /\ ~frame.detect_raises THEN Some(frame.faces) ELSE None

\* the average EAR the eye-contact stage computed, when it ran
EarSeen(frame, stages) ==
    IF Len(stages) >= 7
    THEN Some((frame.landmarks.ear[1] + frame.landmarks.ear[2]) \div 2)
    ELSE None

\* what the frame fed to the call was like, whatever the stages made of it
FrameSeen(frame) ==
    Some([kind |-> frame.kind, detect_raises |-> frame.detect_raises,
          faces |-> frame.faces, face_width |-> frame.landmarks.face_width,
          ear |-> frame.landmarks.ear, gaze |-> frame.landmarks.gaze,
          head |-> <<frame.landmarks.nose, frame.landmarks.key>>,
          pose |-> frame.pose, pose_raises |-> frame.pose_raises])

\* the frame that FrameSeen describes
FrameOf(seen) ==
    [kind |-> seen[1].kind,
     detect_raises |-> seen[1].detect_raises,
     faces |-> seen[1].faces,
     landmarks |-> [face_width |-> seen[1].face_width, ear |-> seen[1].ear,
                    gaze |-> seen[1].gaze, nose |-> seen[1].head[1],
                    key |-> seen[1].head[2]],
     pose |-> seen[1].pose,
     pose_raises |-> seen[1].pose_raises]

\* the run of consecutive multi-face frames after this frame: a frame with more
\* than one face extends it, a frame with one face or none ends it, a frame the
\* detector gave no answer for (or fed to a cancelled session) leaves it
NextRun(r, wasCancelled, faces) ==
    IF wasCancelled \/ faces = None THEN r
    ELSE IF faces[1] > 1 THEN r + 1
    ELSE 0

\* one process_frame call
Process(id, frame) ==
    \E r \in {process_frame(sessions, id, frame)} :
        \E faces \in {FacesSeen(frame, r.stages)} :
            /\ sessions' = r.sessions
            /\ ret' = r.out
            /\ lastOp' = [op |-> "process_frame", id |-> id, stages |-> r.stages,
                          faces |-> faces, avg_ear |-> EarSeen(frame, r.stages),
                          counter_before |-> Some(StateBefore(id).multi_face_counter),
                          frame |-> FrameSeen(frame)]
            /\ run' = [run EXCEPT ![id] =
                          NextRun(@, StateBefore(id).is_cancelled, faces)]
            /\ actives' = [actives EXCEPT ![id] =
                              IF r.out.session_status = "active" THEN @ + 1 ELSE @]

\* one process_frame call, within the bounds on what a session accumulates
Call(id, frame) ==
    /\ Process(id, frame)
    /\ sessions'[id].total_processed_frames <= MaxProcessed
    /\ Len(sessions'[id].face_width_history) <= MaxHistory

ProcessFrame(id, frame) ==
    /\ Call(id, frame)
    /\ sessions'[id].multi_face_counter <= MaxStreak
    /\ UNCHANGED tvars

ProcessStreakFrame(id, frame) ==
    /\ Call(id, frame)
    /\ UNCHANGED tvars

GetOrCreateSession(id) ==
    /\ sessions' = get_or_create_session(sessions, id)
    /\ ret' = sessions'[id]
    /\ lastOp' = [NoOp EXCEPT !.op = "get_or_create_session", !.id = id]
    /\ UNCHANGED <<run, actives, tvars>>

GetSession(id) ==
    /\ sessions' = get_session(sessions, id)
    /\ ret' = sessions'[id]
    /\ lastOp' = [NoOp EXCEPT !.op = "get_session", !.id = id]
    /\ UNCHANGED <<run, actives, tvars>>

ValidateSession(id) ==
    /\ ret' = [valid |-> validate_session(sessions, id)]
    /\ lastOp' = [NoOp EXCEPT !.op = "validate_session", !.id = id]
    /\ UNCHANGED <<sessions, run, actives, tvars>>

IsCancelled(id) ==
    /\ ret' = [cancelled |-> is_cancelled(sessions, id)]
    /\ lastOp' = [NoOp EXCEPT !.op = "is_cancelled", !.id = id]
    /\ UNCHANGED <<sessions, run, actives, tvars>>

GetSessionDuration(id) ==
    /\ ret' = [duration_seconds |-> get_session_duration(sessions, id)]
    /\ lastOp' = [NoOp EXCEPT !.op = "get_session_duration", !.id = id]
    /\ UNCHANGED <<sessions, run, actives, tvars>>

GetSessionSummary(id) ==
    /\ \E r \in {get_session_summary(sessions, id)} :
            sessions' = r.sessions /\ ret' = r.out
    /\ lastOp' = [NoOp EXCEPT !.op = "get_session_summary", !.id = id]
    /\ UNCHANGED <<run, actives, tvars>>

CancelSession(id, reason) ==
    /\ sessions' = cancel_session(sessions, id, reason)
    /\ ret' = None
    /\ lastOp' = [NoOp EXCEPT !.op = "cancel_session", !.id = id]
    /\ UNCHANGED <<run, actives, tvars>>

DeleteSession(id) ==
    /\ sessions' = delete_session(sessions, id)
    /\ ret' = None
    /\ lastOp' = [NoOp EXCEPT !.op = "delete_session", !.id = id,
                              !.counter_before =
                                  IF id \in DOMAIN sessions
                                  THEN Some(sessions[id].multi_face_counter)
                                  ELSE None]
    /\ run' = [run EXCEPT ![id] = 0]
    /\ actives' = [actives EXCEPT ![id] = 0]
    /\ UNCHANGED tvars

\* Spec: every stage of the pipeline on frames that differ in what the stages
\* score, with short multi-face runs.
Next ==
    \E id \in SessionIds :
        \/ \E frame \in Frames : ProcessFrame(id, frame)
        \/ \E reason \in Reasons : CancelSession(id, reason)
        \/ DeleteSession(id)

Spec == Init /\ [][Next]_vars

\* SpecStreak: multi-face runs up to the cancellation threshold, on the frames
\* that end before the eye-contact stage counts them.
NextStreak ==
    \E id \in SessionIds :
        \/ \E frame \in StreakFrames : ProcessStreakFrame(id, frame)
        \/ GetOrCreateSession(id)
        \/ GetSession(id)
        \/ ValidateSession(id)
        \/ IsCancelled(id)
        \/ GetSessionDuration(id)
        \/ GetSessionSummary(id)
        \/ \E reason \in Reasons : CancelSession(id, reason)
        \/ DeleteSession(id)

SpecStreak == Init /\ [][NextStreak]_vars

\* the frames of SpecStreak that are valid and in which the detector finds more
\* than one face
MultiFaceFrames ==
    {f \in StreakFrames : f.kind = "OK" /\ ~f.detect_raises /\ f.faces > 1}

\* a step that feeds session s1 one such frame
MultiFaceStep == \E f \in MultiFaceFrames : ProcessStreakFrame("s1", f)


\* SpecFrames: SpecStreak without cancel_session, so that a session is cancelled
\* only by process_frame.
NextFrames ==
    \E id \in SessionIds :
        \/ \E frame \in StreakFrames : ProcessStreakFrame(id, frame)
        \/ GetOrCreateSession(id)
        \/ DeleteSession(id)

SpecFrames == Init /\ [][NextFrames]_vars

\* SpecBlinks: blink frames with one face or two, and two-face frames with open
\* eyes that fail at the face width, in runs long enough to reach the
\* cancellation threshold.
BlinkFrames ==
    {[DefaultFrame EXCEPT !.faces = n, !.landmarks.ear = <<180, 180>>] :
        n \in FaceCounts}
        \cup {[DefaultFrame EXCEPT !.faces = 2, !.landmarks.face_width = 0]}

ProcessBlinkFrame(id, frame) ==
    /\ Process(id, frame)
    /\ Len(sessions'[id].face_width_history) <= MaxBlinkHistory
    /\ UNCHANGED tvars

NextBlinks ==
    \E id \in SessionIds :
        \/ \E frame \in BlinkFrames : ProcessBlinkFrame(id, frame)
        \/ DeleteSession(id)

SpecBlinks == Init /\ [][NextBlinks]_vars

\* SpecPair: two sessions fed interleaved frame streams, cancelled and deleted
\* independently.
PairIds == {"s1", "s2"}

PairFrames ==
    {DefaultFrame,
     [DefaultFrame EXCEPT !.faces = 2, !.landmarks.gaze = GazeAside,
                          !.landmarks.nose = <<530, 540, 0>>,
                          !.landmarks.key = <<530, 540, 0>>, !.pose = PoseGood],
     [DefaultFrame EXCEPT !.landmarks.ear = <<180, 180>>]}

InitPair ==
    /\ sessions = [i \in {} |-> NewSessionState]
    /\ ret = None
    /\ lastOp = NoOp
    /\ run = [i \in PairIds |-> 0]
    /\ actives = [i \in PairIds |-> 0]
    /\ connections = [h \in Handlers |-> Closed]
    /\ transport_sessions = [i \in {} |-> NewTransportRecord]

NextPair ==
    \E id \in PairIds :
        \/ \E frame \in PairFrames : ProcessFrame(id, frame)
        \/ CancelSession(id, "manual")
        \/ DeleteSession(id)

SpecPair == InitPair /\ [][NextPair]_vars

\* video_ws up to its loop: the socket is accepted and the record of the
\* session_id is (re)initialised, whatever is already stored or connected
Connect(h, id) ==
    /\ ~connections[h].open
    /\ connections' = [connections EXCEPT ![h] = [open |-> TRUE, session_id |-> id]]
    /\ transport_sessions' =
           [i \in DOMAIN transport_sessions \cup {id} |->
                IF i = id THEN NewTransportRecord ELSE transport_sessions[i]]
    /\ ret' = None
    /\ lastOp' = [NoOp EXCEPT !.op = "connect", !.id = id]
    /\ UNCHANGED <<sessions, run, actives>>

\* one turn of the loop on a message that does not decode: an error is sent
\* and nothing is counted
ReceiveUndecodable(h) ==
    /\ connections[h].open
    /\ ret' = [status |-> "error", message |-> "Failed to decode frame"]
    /\ lastOp' = [NoOp EXCEPT !.op = "decode_error", !.id = connections[h].session_id]
    /\ UNCHANGED <<sessions, run, actives, tvars>>

\* one turn of the loop on a decodable frame, from one await to the next: the
\* frame is counted, processed, its scores stored and the envelope sent
ReceiveFrame(h, frame) ==
    /\ connections[h].open
    /\ Call(connections[h].session_id, frame)
    /\ transport_sessions' =
           [transport_sessions EXCEPT ![connections[h].session_id] =
                store_result(@, ret')]
    /\ UNCHANGED connections

\* WebSocketDisconnect: the handler ends; the record and the SessionState stay
Disconnect(h) ==
    /\ connections[h].open
    /\ connections' = [connections EXCEPT ![h] = Closed]
    /\ ret' = None
    /\ lastOp' = [NoOp EXCEPT !.op = "disconnect", !.id = connections[h].session_id]
    /\ UNCHANGED <<sessions, run, actives, transport_sessions>>

\* SpecTransport: two clients of the WebSocket endpoint connecting for the
\* same session id, streaming frames and disconnecting.
TransportFrames ==
    {DefaultFrame,
     [DefaultFrame EXCEPT !.landmarks.nose = <<510, 500, 0>>],
     [DefaultFrame EXCEPT !.landmarks.nose = <<530, 540, 0>>,
                          !.landmarks.key = <<530, 540, 0>>, !.pose = PoseGood]}

NextTransport ==
    \E h \in Handlers :
        \/ \E id \in SessionIds : Connect(h, id)
        \/ ReceiveUndecodable(h)
        \/ \E frame \in TransportFrames : ReceiveFrame(h, frame)
        \/ Disconnect(h)

SpecTransport == Init /\ [][NextTransport]_vars

----------------------------------------------------------------------------
(* Properties *)

\* the last step was a process_frame call (read in the state after it)
Framed == lastOp.op = "process_frame"
\* the session the last call was for
Last == sessions[lastOp.id]

ScoreLists(state) ==
    <<state.facial_engagement_scores, state.posture_scores, state.stability_scores>>

\* C1. Blink exclusion: a frame that process_frame classifies as a blink
\* (envelope frame_skipped) leaves eye_contact_frames and
\* total_processed_frames as they were before the frame, and none of the three
\* score lists gains an entry.
C1_BlinkExclusion ==
    [][(lastOp'.op = "process_frame" /\ ret'.session_status = "frame_skipped")
        => LET before == StateBefore(lastOp'.id)
               after == sessions'[lastOp'.id]
           IN  /\ after.eye_contact_frames = before.eye_contact_frames
               /\ after.total_processed_frames = before.total_processed_frames
               /\ ScoreLists(after) = ScoreLists(before)]_vars

\* a blink frame came after a frame that was counted and scored
C1_Witness ==
    /\ Framed
    /\ ret.session_status = "frame_skipped"
    /\ ret.reason = Some("blink_detected")
    /\ Last.total_processed_frames >= 1
    /\ Last.eye_contact_frames >= 1
    /\ Len(Last.posture_scores) >= 1

\* C2. Cancellation latch: every process_frame call for a session that is
\* already cancelled returns the cancelled envelope with the cancellation reason
\* the session holds, runs no stage, and changes neither that reason nor any
\* counter of the session.
C2_CancellationLatch ==
    [][(lastOp'.op = "process_frame" /\ StateBefore(lastOp'.id).is_cancelled)
        => LET before == StateBefore(lastOp'.id)
               after == sessions'[lastOp'.id]
           IN  /\ ret'.session_status = "cancelled"
               /\ ret'.reason = before.cancellation_reason
               /\ after.is_cancelled
               /\ after.cancellation_reason = before.cancellation_reason
               /\ after.eye_contact_frames = before.eye_contact_frames
               /\ after.total_processed_frames = before.total_processed_frames
               /\ after.multi_face_counter = before.multi_face_counter]_vars

\* a frame was fed to a cancelled session that had counted frames before
C2_Witness ==
    /\ Framed
    /\ ret.session_status = "cancelled"
    /\ lastOp.stages = << >>
    /\ Last.cancellation_reason = Some("manual")
    /\ Last.total_processed_frames >= 2
    /\ Last.multi_face_counter >= 1

\* C3. In every reachable session state eye_contact_frames <=
\* total_processed_frames, and no step increases eye_contact_frames of a
\* session without increasing its total_processed_frames.
C3_EyeContactWithinTotal ==
    /\ [](\A id \in DOMAIN sessions :
            sessions[id].eye_contact_frames <= sessions[id].total_processed_frames)
    /\ [][\A id \in DOMAIN sessions \cap DOMAIN sessions' :
            sessions'[id].eye_contact_frames > sessions[id].eye_contact_frames
                => sessions'[id].total_processed_frames
                       > sessions[id].total_processed_frames]_vars

\* frames with and without eye contact were counted
C3_Witness ==
    \E id \in DOMAIN sessions :
        /\ sessions[id].eye_contact_frames >= 1
        /\ sessions[id].total_processed_frames > sessions[id].eye_contact_frames

\* C4. A live session is cancelled by a frame exactly when that frame is the
\* 15th of a run of consecutive frames with more than one face: the call
\* returns the cancelled envelope (reason multiple_faces_detected, is_cancelled
\* set) iff the run reaches 15 with it, and frames 1..14 of a run do not.
C4_CancelledExactlyOn15th ==
    [][(lastOp'.op = "process_frame" /\ ~StateBefore(lastOp'.id).is_cancelled)
        => /\ (ret'.session_status = "cancelled")
                <=> (run'[lastOp'.id] = MULTI_FACE_THRESHOLD)
           /\ (ret'.session_status = "cancelled")
                => /\ ret'.reason = Some("multiple_faces_detected")
                   /\ sessions'[lastOp'.id].is_cancelled]_vars

\* C5. Multi-face reset: a single-face frame on a live session leaves
\* multi_face_counter at 0 and the session not cancelled, also after 14
\* consecutive multi-face frames; the counter grows by at most one per frame,
\* and a frame cancels a session only by taking the counter from 14 to 15, so
\* after a reset one more multi-face frame does not cancel and 15 are needed.
C5_MultiFaceReset ==
    [][(lastOp'.op = "process_frame" /\ ~StateBefore(lastOp'.id).is_cancelled)
        => LET before == StateBefore(lastOp'.id)
               after == sessions'[lastOp'.id]
           IN  /\ lastOp'.faces = Some(1)
                    => after.multi_face_counter = 0 /\ ~after.is_cancelled
               /\ after.multi_face_counter <= before.multi_face_counter + 1
               /\ after.is_cancelled
                    => /\ before.multi_face_counter = MULTI_FACE_THRESHOLD - 1
                       /\ after.multi_face_counter = MULTI_FACE_THRESHOLD
                       /\ lastOp'.faces # None /\ lastOp'.faces[1] > 1]_vars

\* a single-face frame came after 14 consecutive multi-face frames
C5_Witness ==
    /\ Framed
    /\ lastOp.faces = Some(1)
    /\ lastOp.counter_before = Some(MULTI_FACE_THRESHOLD - 1)
    /\ Last.multi_face_counter = 0
    /\ run[lastOp.id] = 0
    /\ ~Last.is_cancelled

\* C6. A frame in which the detector finds zero faces resets
\* multi_face_counter to 0.
C6_ZeroFaceResets ==
    [][(lastOp'.op = "process_frame" /\ ~StateBefore(lastOp'.id).is_cancelled
        /\ lastOp'.faces = Some(0))
        => sessions'[lastOp'.id].multi_face_counter = 0]_vars

C8_CompositeNullity ==
    (Framed /\ ret.session_status = "active")
        => LET s == ret.non_verbal_scores
           IN  (s.final_non_verbal_score # None)
                   <=> (s.eye_contact # None /\ s.facial_expression # None
                        /\ s.posture # None /\ s.stability # None)

\* an active envelope with only posture missing, and so no final score
C8_Witness ==
    /\ Framed
    /\ ret.session_status = "active"
    /\ ret.non_verbal_scores.eye_contact # None
    /\ ret.non_verbal_scores.facial_expression # None
    /\ ret.non_verbal_scores.stability # None
    /\ ret.non_verbal_scores.posture = None
    /\ ret.non_verbal_scores.final_non_verbal_score = None

\* C9. First-frame nullability: the first active envelope of a session has
\* facial_expression and stability null, hence final_non_verbal_score null,
\* whatever frames ending in error or skip preceded it.
C9_FirstFrameNull ==
    (Framed /\ ret.session_status = "active" /\ actives[lastOp.id] = 1)
        => /\ ret.non_verbal_scores.facial_expression = None
           /\ ret.non_verbal_scores.stability = None
           /\ ret.non_verbal_scores.final_non_verbal_score = None

\* the first active envelope came after a blink and a frame that ended in error
C9_Witness ==
    /\ Framed
    /\ ret.session_status = "active"
    /\ actives[lastOp.id] = 1
    /\ Last.total_processed_frames = 2
    /\ Len(Last.face_width_history) = 3
    /\ ret.non_verbal_scores.eye_contact # None
    /\ ret.non_verbal_scores.posture # None

InRange(v) == v = None \/ (0 <= v[1] /\ v[1] <= 10000)

\* C10. Score bounds: every process_frame call returns an envelope, and each of
\* its five scores is null or within [0, 100].
C10_ScoreBounds ==
    Framed
        => /\ ret.session_status
                \in {"active", "insufficient_data", "cancelled", "frame_skipped"}
           /\ \A k \in DOMAIN ret.non_verbal_scores : InRange(ret.non_verbal_scores[k])

\* an active envelope with all five scores, the engagement score at its cap
C10_Witness ==
    /\ Framed
    /\ ret.session_status = "active"
    /\ ret.non_verbal_scores.facial_expression = Some(10000)
    /\ ret.non_verbal_scores.final_non_verbal_score # None
    /\ ret.non_verbal_scores.final_non_verbal_score[1] > 0

\* C11. Every process_frame call returns one envelope whose session_status is
\* active, insufficient_data, cancelled or frame_skipped; the three non-active
\* envelopes carry a reason and five null scores, and the frame_skipped
\* envelope has no insights.
C11_EnvelopeKinds ==
    Framed
        => /\ ret.session_status
                \in {"active", "insufficient_data", "cancelled", "frame_skipped"}
           /\ ret.session_status # "active"
                => /\ ret.non_verbal_scores = NullScores
                   /\ ret.reason # None
           /\ ret.session_status = "frame_skipped" => ret.insights = << >>

\* a frame was skipped on a session whose accumulators would give four scores
C11_Witness ==
    /\ Framed
    /\ ret.session_status = "frame_skipped"
    /\ ret.insights = << >>
    /\ Len(Last.facial_engagement_scores) >= 1
    /\ Len(Last.stability_scores) >= 1
    /\ Len(Last.posture_scores) >= 1

\* the stage at which a call must end: the first stage that answers the frame f
\* with an error, a skip or a cancel for a session in the state before, 0 for
\* a session already cancelled, 11 when every stage succeeds
StopStage(before, f) ==
    IF before.is_cancelled THEN 0
    ELSE IF f.kind \in {"None", "NotArray", "Empty", "Not3D"} THEN 1
    ELSE IF f.kind = "BadChannels" THEN 2
    ELSE IF f.detect_raises \/ f.faces = 0 THEN 3
    ELSE IF f.faces > 1 /\ before.multi_face_counter + 1 >= MULTI_FACE_THRESHOLD THEN 4
    ELSE IF ~is_valid_face_width(f.face_width) THEN 6
    ELSE IF (f.ear[1] + f.ear[2]) \div 2 < EyeContactBlinkThreshold THEN 7
    ELSE IF f.pose_raises THEN 9
    ELSE 11

\* C12. Within one process_frame call the stages that run are a prefix of the
\* fixed order validate .. commit, each at most once, and the prefix ends with
\* the first stage that returns an error, a skip or a cancel: what a later
\* stage writes is as it was before the call, and what an earlier stage
\* writes has changed by at most one entry.
C12_StageOrder ==
    [][lastOp'.op = "process_frame"
        => LET before == StateBefore(lastOp'.id)
               after == sessions'[lastOp'.id]
               n == Len(lastOp'.stages)
           IN  /\ lastOp'.stages = SubSeq(StageNames, 1, n)
               /\ n = StopStage(before, lastOp'.frame[1])
               /\ ret'.session_status = "active" <=> n = 11
               /\ n < 4 => after.multi_face_counter = before.multi_face_counter
               /\ Len(after.face_width_history)
                      = Len(before.face_width_history) + (IF n >= 7 THEN 1 ELSE 0)
               /\ after.total_processed_frames
                      = before.total_processed_frames + (IF n >= 8 THEN 1 ELSE 0)
               /\ n < 8 => after.facial_engagement_scores = before.facial_engagement_scores
               /\ n < 9 => after.posture_scores = before.posture_scores
               /\ n < 10 => after.stability_scores = before.stability_scores
               /\ n < 11 => /\ after.previous_landmarks = before.previous_landmarks
                            /\ after.previous_nose_pos = before.previous_nose_pos
               /\ \A i \in 1..3 : Len(ScoreLists(after)[i]) <= Len(ScoreLists(before)[i]) + 1]_vars

\* a call ended with an error of the posture stage: the expression stage before
\* it has scored the frame, the stability stage after it has not
C12_Witness ==
    /\ Framed
    /\ Len(lastOp.stages) = 9
    /\ ret.session_status = "insufficient_data"
    /\ Last.total_processed_frames = 2
    /\ Len(Last.facial_engagement_scores) = 1
    /\ Len(Last.stability_scores) = 0
    /\ Last.previous_landmarks # None

\* C13. A frame classified as a blink affects no counter of the session:
\* eye_contact_frames, total_processed_frames and multi_face_counter are after
\* the frame what they were before it, whatever the number of faces in it.
C13_BlinkTouchesNoCounter ==
    [][(lastOp'.op = "process_frame" /\ ret'.session_status = "frame_skipped")
        => LET before == StateBefore(lastOp'.id)
               after == sessions'[lastOp'.id]
           IN  /\ after.eye_contact_frames = before.eye_contact_frames
               /\ after.total_processed_frames = before.total_processed_frames
               /\ after.multi_face_counter = before.multi_face_counter]_vars

\* C14. On a frame that returns frame_skipped the session state differs from
\* the state before the frame at most in multi_face_counter and in
\* face_width_history, which has the frame's face width appended; every other
\* field is unchanged.
C14_SkipMutatesOnlyEarlyFields ==
    [][(lastOp'.op = "process_frame" /\ ret'.session_status = "frame_skipped")
        => LET before == StateBefore(lastOp'.id)
               after == sessions'[lastOp'.id]
           IN  /\ after = [before EXCEPT
                              !.multi_face_counter = after.multi_face_counter,
                              !.face_width_history = after.face_width_history]
               /\ after.face_width_history
                      = Append(before.face_width_history, lastOp'.frame[1].face_width)]_vars

\* a blink frame with two faces on a session that holds temporal state and
\* scores: both fields the early stages write have changed
C14_Witness ==
    /\ Framed
    /\ ret.session_status = "frame_skipped"
    /\ lastOp.faces = Some(2)
    /\ Last.multi_face_counter = 1
    /\ Len(Last.face_width_history) >= 2
    /\ Last.previous_landmarks # None
    /\ Len(Last.posture_scores) >= 1

\* C15. previous_landmarks and previous_nose_pos are written only by the commit
\* stage of a frame that passed every earlier stage: a frame ending in
\* insufficient_data, frame_skipped or cancelled leaves both as they were, a
\* frame ending active stores its own landmarks and nose, and the engagement
\* and the stability it appends are measured against the values stored before.
C15_CommitOnlyOnFullPass ==
    [][lastOp'.op = "process_frame"
        => LET before == StateBefore(lastOp'.id)
               after == sessions'[lastOp'.id]
               f == lastOp'.frame[1]
           IN  IF ret'.session_status = "active"
               THEN /\ after.previous_nose_pos = f.head[1]
                    /\ after.previous_landmarks = Some(f.head[2])
                    /\ before.previous_landmarks # None
                         => after.facial_engagement_scores
                              = Append(before.facial_engagement_scores,
                                    normalize_movement(
                                        Dist3(f.head[2], before.previous_landmarks[1]),
                                        f.face_width))
                    /\ before.previous_nose_pos # None
                         => Len(after.stability_scores)
                              = Len(before.stability_scores) + 1
               ELSE /\ after.previous_nose_pos = before.previous_nose_pos
                    /\ after.previous_landmarks = before.previous_landmarks]_vars

\* a frame ended in an error of the posture stage with the head elsewhere than
\* in the last fully processed frame, whose landmarks are still the previous ones
C15_Witness ==
    /\ Framed
    /\ ret.session_status = "insufficient_data"
    /\ Len(lastOp.stages) = 9
    /\ Last.previous_landmarks # None
    /\ Last.previous_landmarks # Some(lastOp.frame[1].head[2])
    /\ Last.previous_nose_pos # lastOp.frame[1].head[1]

\* the message of the stage that rejects the frame f, for a frame that one of
\* the stages 1, 2, 3 and 6 rejects
StageMessage(f) ==
    IF f.kind = "None" THEN "Frame is None"
    ELSE IF f.kind = "NotArray" THEN "Frame must be numpy array"
    ELSE IF f.kind = "Empty" THEN "Frame is empty"
    ELSE IF f.kind = "Not3D" THEN "Frame must be 3D array (H, W, C)"
    ELSE IF f.kind = "BadChannels" THEN "Failed to convert frame to RGB"
    ELSE IF f.detect_raises THEN "Face detection failed"
    ELSE IF f.faces = 0 THEN "No face detected"
    ELSE "Invalid face width"

\* C16. A recoverable per-frame error (invalid frame, failed conversion or
\* detection, no face, invalid face width) on a live session yields the
\* insufficient_data envelope with the failing stage's message and leaves the
\* session not cancelled, and a valid single-face frame fed next runs all
\* eleven stages and ends active.
C16_ErrorIsRecoverable ==
    [][(lastOp'.op = "process_frame"
        /\ StopStage(StateBefore(lastOp'.id), lastOp'.frame[1]) \in {1, 2, 3, 6})
        => LET after == sessions'[lastOp'.id]
               next == process_frame(sessions', lastOp'.id, DefaultFrame)
           IN  /\ ret'.session_status = "insufficient_data"
               /\ ret'.reason = Some(StageMessage(lastOp'.frame[1]))
               /\ ~after.is_cancelled
               /\ after.cancellation_reason = None
               /\ next.stages = StageNames
               /\ next.out.session_status = "active"]_vars

\* a two-face frame with an invalid face width was rejected on a session one
\* multi-face frame away from cancellation
C16_Witness ==
    /\ Framed
    /\ ret.session_status = "insufficient_data"
    /\ ret.reason = Some("Invalid face width")
    /\ lastOp.faces = Some(2)
    /\ Last.multi_face_counter = MULTI_FACE_THRESHOLD - 1
    /\ ~Last.is_cancelled

\* C17. Every frame that reaches the eye-contact stage and is not a blink
\* increments total_processed_frames by exactly 1 whatever the gaze, and
\* increments eye_contact_frames by exactly 1 iff the gaze is toward the
\* camera, by 0 otherwise.
C17_CountersPerFrame ==
    [][(lastOp'.op = "process_frame" /\ lastOp'.avg_ear # None
        /\ ret'.session_status # "frame_skipped")
        => LET before == StateBefore(lastOp'.id)
               after == sessions'[lastOp'.id]
           IN  /\ after.total_processed_frames = before.total_processed_frames + 1
               /\ after.eye_contact_frames
                      = before.eye_contact_frames
                        + (IF lastOp'.frame[1].gaze = GazeToward THEN 1 ELSE 0)]_vars

\* a frame with the gaze aside was counted after a frame with eye contact
C17_Witness ==
    /\ Framed
    /\ lastOp.avg_ear # None
    /\ ret.session_status = "active"
    /\ lastOp.frame[1].gaze = GazeAside
    /\ Last.total_processed_frames = 2
    /\ Last.eye_contact_frames = 1

\* C18. For a session that is not deleted is_cancelled never goes from true
\* back to false, whatever operation is applied (process_frame, getOrCreate,
\* get, validate, cancel, duration, summary), and a process_frame on a
\* cancelled session runs no pipeline stage.
C18_CancelledIsTerminal ==
    [][\A id \in DOMAIN sessions :
          (sessions[id].is_cancelled /\ lastOp'.op # "delete_session")
              => /\ id \in DOMAIN sessions'
                 /\ sessions'[id].is_cancelled
                 /\ (lastOp'.op = "process_frame" /\ lastOp'.id = id)
                        => lastOp'.stages = << >>]_vars

\* a frame was fed to a session that the single-face rule had cancelled
C18_Witness ==
    /\ Framed
    /\ lastOp.stages = << >>
    /\ lastOp.counter_before = Some(MULTI_FACE_THRESHOLD)
    /\ Last.is_cancelled
    /\ Last.cancellation_reason = Some("multiple_faces_detected")

\* a SessionState as SessionState() builds it
Fresh(state) ==
    /\ ~state.is_cancelled
    /\ state.cancellation_reason = None
    /\ state.previous_landmarks = None
    /\ state.previous_nose_pos = None
    /\ state.eye_contact_frames = 0
    /\ state.total_processed_frames = 0
    /\ state.multi_face_counter = 0
    /\ state.face_width_history = << >>
    /\ ScoreLists(state) = <<<< >>, << >>, << >>>>
    /\ state.blink_buffer = << >>

\* C19. delete(id) removes the session entry, cancelled or not, and is a no-op
\* on an unknown id; the getOrCreate(id) or process_frame(id, ...) that comes
\* next starts from a fresh SessionState.
C19_DeleteThenFresh ==
    /\ [][lastOp'.op = "delete_session"
            => /\ lastOp'.id \notin DOMAIN sessions'
               /\ \A i \in DOMAIN sessions \ {lastOp'.id} :
                      i \in DOMAIN sessions' /\ sessions'[i] = sessions[i]
               /\ lastOp'.id \notin DOMAIN sessions => sessions' = sessions]_vars
    /\ [][(lastOp.op = "delete_session" /\ lastOp'.id = lastOp.id)
            => /\ lastOp'.op \in {"get_or_create_session", "get_session"}
                    => Fresh(ret') /\ Fresh(sessions'[lastOp'.id])
               /\ lastOp'.op = "process_frame"
                    => /\ lastOp'.counter_before = Some(0)
                       /\ lastOp'.stages # << >>
                       /\ sessions'[lastOp'.id].total_processed_frames = 0
                       /\ sessions'[lastOp'.id].multi_face_counter <= 1
                       /\ Len(sessions'[lastOp'.id].face_width_history) <= 1]_vars

\* a session that the single-face rule had cancelled was deleted
C19_Witness ==
    /\ lastOp.op = "delete_session"
    /\ lastOp.counter_before = Some(MULTI_FACE_THRESHOLD)
    /\ lastOp.id \notin DOMAIN sessions

\* C20. getOrCreate(id) is idempotent: for an existing id it returns the
\* session as it is and changes nothing, for an absent id it stores and returns
\* a fresh SessionState; get(id) does exactly the same, so get on an unknown id
\* creates the session.
C20_GetOrCreateIdempotent ==
    [][lastOp'.op \in {"get_or_create_session", "get_session"}
        => IF lastOp'.id \in DOMAIN sessions
           THEN sessions' = sessions /\ ret' = sessions[lastOp'.id]
           ELSE /\ DOMAIN sessions' = DOMAIN sessions \cup {lastOp'.id}
                /\ \A i \in DOMAIN sessions : sessions'[i] = sessions[i]
                /\ Fresh(sessions'[lastOp'.id])
                /\ ret' = sessions'[lastOp'.id]]_vars

\* get returned a session that had counted multi-face frames and was cancelled
C20_Witness ==
    /\ lastOp.op = "get_session"
    /\ lastOp.id \in DOMAIN sessions
    /\ ret = Last
    /\ Last.multi_face_counter >= 2
    /\ Len(Last.face_width_history) >= 1
    /\ Last.is_cancelled

\* C21. validate(id) returns true iff a session with that id exists in the
\* registry and is not cancelled: false for an unknown id and for a cancelled
\* session; it changes nothing.
C21_ValidateExistsAndLive ==
    [][lastOp'.op = "validate_session"
        => /\ ret'.valid
                <=> (lastOp'.id \in DOMAIN sessions
                     /\ ~sessions[lastOp'.id].is_cancelled)
           /\ sessions' = sessions]_vars

\* validate answered false for a session that exists and is cancelled
C21_Witness ==
    /\ lastOp.op = "validate_session"
    /\ lastOp.id \in DOMAIN sessions
    /\ Last.is_cancelled
    /\ ~ret.valid

\* C22. The set of session ids in the registry changes only by getOrCreate,
\* get and process_frame, which add the id they are called for, and by delete,
\* which removes it: validate, cancel, is_cancelled, duration and
\* get_session_summary never create or remove a session, and cancel on an
\* unknown id changes nothing at all.
C22_RegistryMembership ==
    [][/\ lastOp'.op \in {"get_or_create_session", "get_session", "process_frame"}
            => DOMAIN sessions' = DOMAIN sessions \cup {lastOp'.id}
       /\ lastOp'.op = "delete_session"
            => DOMAIN sessions' = DOMAIN sessions \ {lastOp'.id}
       /\ lastOp'.op \in {"validate_session", "cancel_session", "is_cancelled",
                          "get_session_duration", "get_session_summary"}
            => DOMAIN sessions' = DOMAIN sessions
       /\ (lastOp'.op = "cancel_session" /\ lastOp'.id \notin DOMAIN sessions)
            => sessions' = sessions]_vars

\* cancel was called for an id the registry does not hold, and it still does not
C22_Witness ==
    /\ lastOp.op = "cancel_session"
    /\ lastOp.id \notin DOMAIN sessions

\* the registry with every session but that of id removed
Only(sess, id) == [i \in DOMAIN sess \cap {id} |-> sess[i]]

C24_OneConnectionPerSession ==
    \A h1, h2 \in Handlers :
        (h1 # h2 /\ connections[h1].open /\ connections[h2].open)
            => connections[h1].session_id # connections[h2].session_id

\* C25. get_session_summary answers for every session that exists in the
\* registry, a cancelled one included, with its session id, its total and
\* eye-contact frame counts and its cancellation state.
C25_SummaryForEveryExistingSession ==
    [][(lastOp'.op = "get_session_summary" /\ lastOp'.id \in DOMAIN sessions)
        => /\ "session_id" \in DOMAIN ret'
           /\ ret'.session_id = lastOp'.id
           /\ ret'.total_frames_processed
                = sessions[lastOp'.id].total_processed_frames
           /\ ret'.eye_contact_frames = sessions[lastOp'.id].eye_contact_frames
           /\ ret'.is_cancelled = sessions[lastOp'.id].is_cancelled
           /\ ret'.cancellation_reason
                = sessions[lastOp'.id].cancellation_reason]_vars

\* the insights of an envelope, as a set
Insights == {ret.insights[i] : i \in DOMAIN ret.insights}

\* C26. Insights of an active envelope: each of the eye-contact, posture and
\* stability insights is present iff that score is non-null and below 60, the
\* engagement insight iff facial_expression is non-null and below 30; a null
\* component never triggers its insight, and each test is independent of the
\* others. The scores compared are the session's unrounded ones; the rounded
\* scores of the envelope are null exactly when those are, and agree with the
\* insights up to the rounding.
C26_InsightsNullSafe ==
    (Framed /\ ret.session_status = "active")
        => LET s == ret.non_verbal_scores
               below(list, limit) ==
                   Len(list) > 0 /\ Sum(list) < limit * Len(list)
               agrees(text, low, score, limit) ==
                   /\ (text \in Insights) <=> low
                   /\ score = None => text \notin Insights
                   /\ (score # None /\ score[1] < limit) => text \in Insights
                   /\ text \in Insights => (score # None /\ score[1] <= limit)
           IN  /\ agrees("Eye contact was inconsistent",
                         Last.total_processed_frames > 0
                         /\ 10 * Last.eye_contact_frames
                                < 6 * Last.total_processed_frames,
                         s.eye_contact, 6000)
               /\ agrees("Posture needs improvement",
                         below(Last.posture_scores, 600000), s.posture, 6000)
               /\ agrees("Frequent movement detected; try to remain still",
                         below(Last.stability_scores, 600000), s.stability, 6000)
               /\ agrees("Facial engagement appears low",
                         below(Last.facial_engagement_scores, 6000),
                         s.facial_expression, 3000)
               /\ Len(ret.insights) = Cardinality(Insights)

\* an active envelope where the eye-contact insight fires, stability is scored
\* and fires nothing, and posture is null and fires nothing
C26_Witness ==
    /\ Framed
    /\ ret.session_status = "active"
    /\ "Eye contact was inconsistent" \in Insights
    /\ ret.non_verbal_scores.stability # None
    /\ "Frequent movement detected; try to remain still" \notin Insights
    /\ ret.non_verbal_scores.posture = None
    /\ "Posture needs improvement" \notin Insights

\* C27. Stability of a frame is (1 - min(1, d * 10)) * 100 within [0, 100],
\* d being the distance of the nose from the previous committed nose position
\* divided by the face width: face width 0.25, previous nose (0.50, 0.50, 0.0)
\* and current nose (0.51, 0.50, 0.0) append 60.0, and any d >= 0.1 appends 0.
C27_StabilityFormula ==
    [][(/\ lastOp'.op = "process_frame"
        /\ \E i \in DOMAIN lastOp'.stages : lastOp'.stages[i] = "analyze_stability"
        /\ StateBefore(lastOp'.id).previous_nose_pos # None)
        => LET before == StateBefore(lastOp'.id)
               after == sessions'[lastOp'.id]
               seen == lastOp'.frame[1]
               nose == seen.head[1]
               prev == before.previous_nose_pos
               d == (Dist3(nose, prev) * 1000000) \div seen.face_width
               appended == after.stability_scores[Len(after.stability_scores)]
           IN  /\ Len(after.stability_scores) = Len(before.stability_scores) + 1
               /\ appended = IF 10 * d >= 1000000 THEN 0 ELSE 1000000 - 10 * d
               /\ appended >= 0 /\ appended <= 1000000
               /\ d >= 100000 => appended = 0
               /\ (seen.face_width = 250 /\ prev = <<500, 500, 0>>
                   /\ nose = <<510, 500, 0>>) => appended = 600000]_vars

\* the scenario: the nose moved from (0.50, 0.50, 0.0) to (0.51, 0.50, 0.0) on a
\* face 0.25 wide, and 60.0 was appended
C27_Witness ==
    /\ Framed
    /\ lastOp.frame[1].face_width = 250
    /\ lastOp.frame[1].head[1] = <<510, 500, 0>>
    /\ Last.previous_nose_pos = <<510, 500, 0>>
    /\ Last.stability_scores = <<600000>>

\* the list `earlier` is an unchanged prefix of `later`, which is at most one
\* entry longer
GrewByAtMostOne(earlier, later) ==
    /\ Len(later) >= Len(earlier)
    /\ Len(later) <= Len(earlier) + 1
    /\ SubSeq(later, 1, Len(earlier)) = earlier

\* C28. For a given SessionState, eye_contact_frames and
\* total_processed_frames never decrease, and face_width_history and the three
\* score lists are append-only: over any step that keeps the session, and so
\* over any process_frame call, the earlier contents of each list are an
\* unchanged prefix of the later ones and each list gains at most one entry.
C28_CountersAndListsOnlyGrow ==
    [][\A id \in DOMAIN sessions' :
        LET before == IF id \in DOMAIN sessions THEN sessions[id]
                      ELSE NewSessionState
            after == sessions'[id]
        IN  /\ after.eye_contact_frames >= before.eye_contact_frames
            /\ after.total_processed_frames >= before.total_processed_frames
            /\ after.eye_contact_frames <= before.eye_contact_frames + 1
            /\ after.total_processed_frames <= before.total_processed_frames + 1
            /\ GrewByAtMostOne(before.face_width_history, after.face_width_history)
            /\ GrewByAtMostOne(before.facial_engagement_scores,
                               after.facial_engagement_scores)
            /\ GrewByAtMostOne(before.posture_scores, after.posture_scores)
            /\ GrewByAtMostOne(before.stability_scores, after.stability_scores)]_vars

\* a session whose second counted frame appended to all four lists, the two
\* posture entries being different
C28_Witness ==
    /\ Framed
    /\ Last.total_processed_frames = 2
    /\ Len(Last.face_width_history) >= 2
    /\ Len(Last.facial_engagement_scores) = 1
    /\ Len(Last.stability_scores) = 1
    /\ Len(Last.posture_scores) = 2
    /\ Last.posture_scores[1] # Last.posture_scores[2]

\* session s1 exists and is cancelled
CancelledS1 == "s1" \in DOMAIN sessions /\ sessions["s1"].is_cancelled

\* C29. Sustained multi-face violation leads to cancellation: a session that
\* has been fed MULTI_FACE_THRESHOLD consecutive valid multi-face frames is
\* cancelled (at the latest on the 15th such frame), and if from some point on
\* every step feeds the session a valid multi-face frame, and such frames keep
\* arriving, the session is eventually cancelled.
C29_SustainedMultiFaceCancels ==
    /\ [](\A id \in SessionIds :
            run[id] >= MULTI_FACE_THRESHOLD
                => (id \in DOMAIN sessions /\ sessions[id].is_cancelled))
    /\ (<>[][MultiFaceStep]_vars /\ []<><<MultiFaceStep>>_vars) => <>CancelledS1

\* the 15th consecutive multi-face frame of a session: it finds the counter at
\* 14 and returns the cancelled envelope
C29_Witness ==
    /\ Framed
    /\ run[lastOp.id] = MULTI_FACE_THRESHOLD
    /\ lastOp.counter_before = Some(MULTI_FACE_THRESHOLD - 1)
    /\ lastOp.stages # << >>
    /\ Last.is_cancelled
    /\ Last.cancellation_reason = Some("multiple_faces_detected")
    /\ ret.session_status = "cancelled"

\* C30. A multi-face frame that does not reach the cancellation threshold is
\* analysed like a single-face frame, on the first detected face only: the
\* envelope, the stages run and the session state after it are those of the
\* same frame with one face, except for multi_face_counter, which is one more
\* than before; so it runs stages 5-11 and may update the eye-contact
\* counters, the score lists and the temporal memory, and may return an active
\* envelope.
C30_MultiFaceAnalysedAsSingle ==
    [][(/\ lastOp'.op = "process_frame"
        /\ lastOp'.faces # None
        /\ lastOp'.faces[1] > 1
        /\ ~StateBefore(lastOp'.id).is_cancelled
        /\ StateBefore(lastOp'.id).multi_face_counter + 1 < MULTI_FACE_THRESHOLD)
        => LET id == lastOp'.id
               single ==
                   process_frame(sessions, id,
                                 [FrameOf(lastOp'.frame) EXCEPT !.faces = 1])
           IN  /\ ret' = single.out
               /\ ret'.session_status # "cancelled"
               /\ lastOp'.stages = single.stages
               /\ Len(lastOp'.stages) >= 5
               /\ sessions'[id] =
                      [single.sessions[id] EXCEPT
                           !.multi_face_counter =
                               StateBefore(id).multi_face_counter + 1]]_vars

\* a frame with two faces that returned an active envelope, counted towards
\* eye contact, appended a stability score and was committed as the previous
\* frame, with the multi-face counter at 1
C30_Witness ==
    /\ Framed
    /\ lastOp.faces = Some(2)
    /\ Len(lastOp.stages) = 11
    /\ ret.session_status = "active"
    /\ Last.multi_face_counter = 1
    /\ Last.total_processed_frames = 2
    /\ Last.eye_contact_frames = 2
    /\ Len(Last.stability_scores) = 1
    /\ Len(Last.facial_engagement_scores) = 1
    /\ Last.previous_landmarks # None

\* C31. A frame on which the pose collaborator detects no pose passes the
\* posture stage without appending to posture_scores and goes on to stability
\* and commit: it returns an active envelope, whose posture is null iff
\* posture_scores is still empty. posture_scores gains an entry exactly on a
\* frame whose posture stage detected a pose, so posture is null iff no frame
\* of the session so far had a detected pose.
C31_NoPoseIsNotAnError ==
    [][lastOp'.op = "process_frame"
        => LET id == lastOp'.id
               before == StateBefore(id)
               after == sessions'[id]
               reached == Len(lastOp'.stages) >= 9
               seen == lastOp'.frame[1]
           IN  /\ (reached /\ seen.pose = None /\ ~seen.pose_raises)
                    => /\ after.posture_scores = before.posture_scores
                       /\ Len(lastOp'.stages) = 11
                       /\ ret'.session_status = "active"
                       /\ (ret'.non_verbal_scores.posture = None)
                            <=> (before.posture_scores = << >>)
               /\ (reached /\ seen.pose # None /\ ~seen.pose_raises)
                    => /\ Len(after.posture_scores) = Len(before.posture_scores) + 1
                       /\ ret'.session_status = "active"
                       /\ ret'.non_verbal_scores.posture # None
               /\ (~reached \/ seen.pose_raises)
                    => after.posture_scores = before.posture_scores]_vars

\* a frame without a detected pose that ran all stages and returned an active
\* envelope whose posture comes from an earlier frame of the session
C31_Witness ==
    /\ Framed
    /\ lastOp.frame[1].pose = None
    /\ Len(lastOp.stages) = 11
    /\ ret.session_status = "active"
    /\ Len(Last.posture_scores) = 1
    /\ ret.non_verbal_scores.posture # None
    /\ Last.total_processed_frames = 2

\* enforce_single_face_rule and the integrity enforcer, run on the same state
\* and face count, leave the same state and signal cancellation alike, and the
\* signal is what the validator says of the counter they leave
EnforcersAgree(state, face_count) ==
    LET context == [PipelineContext(DefaultFrame, state) EXCEPT
                        !.face_results = Some(face_count)]
        staged == enforce_single_face_rule(context, MULTI_FACE_THRESHOLD)
        checked == check_multi_face_violation(face_count, state,
                                              MULTI_FACE_THRESHOLD)
    IN  /\ staged.context.session_state = checked.state
        /\ staged.result.should_cancel_session <=> (checked.reason # None)
        /\ staged.result.cancellation_reason = checked.reason
        /\ staged.result.should_cancel_session
            <=> is_multi_face_violation(face_count,
                                        checked.state.multi_face_counter,
                                        MULTI_FACE_THRESHOLD)

\* C32. The single-face stage implements the Integrity Enforcer: from every
\* reachable session state and for every face count, enforce_single_face_rule
\* and check_multi_face_violation leave the same multi_face_counter and signal
\* cancellation alike, in agreement with is_multi_face_violation on the counter
\* they leave; so they agree on every sequence of face counts. A frame that
\* ran the stage left the counter, and was cancelled or not, as the enforcer
\* says for the counter the frame found.
C32_StageImplementsEnforcer ==
    /\ \A id \in DOMAIN sessions :
           \A face_count \in 0..MaxFaceCount :
               EnforcersAgree(sessions[id], face_count)
    /\ (Framed /\ Len(lastOp.stages) >= 4)
        => LET found == [Last EXCEPT
                            !.multi_face_counter = lastOp.counter_before[1],
                            !.is_cancelled = FALSE,
                            !.cancellation_reason = None]
               checked == check_multi_face_violation(lastOp.faces[1], found,
                                                     MULTI_FACE_THRESHOLD)
           IN  /\ Last.multi_face_counter = checked.state.multi_face_counter
               /\ (ret.session_status = "cancelled") <=> (checked.reason # None)
               /\ checked.reason # None => Last.cancellation_reason = checked.reason

\* a multi-face frame that found the counter one short of the threshold: stage
\* and enforcer both count to 15 and signal cancellation
C32_Witness ==
    /\ Framed
    /\ Len(lastOp.stages) = 4
    /\ lastOp.faces = Some(2)
    /\ lastOp.counter_before = Some(MULTI_FACE_THRESHOLD - 1)
    /\ Last.multi_face_counter = MULTI_FACE_THRESHOLD
    /\ ret.session_status = "cancelled"
    /\ check_multi_face_violation(2, [Last EXCEPT !.multi_face_counter = @ - 1],
                                  MULTI_FACE_THRESHOLD).reason
         = Some("multiple_faces_detected")

\* C33. In every reachable session state multi_face_counter is between 0 and
\* MULTI_FACE_THRESHOLD; when sessions are cancelled only through
\* process_frame, a session is cancelled iff its counter equals the threshold,
\* and a session that is not cancelled has a counter below it.
C33_CounterWithinThreshold ==
    \A id \in DOMAIN sessions :
        /\ sessions[id].multi_face_counter >= 0
        /\ sessions[id].multi_face_counter <= MULTI_FACE_THRESHOLD
        /\ sessions[id].is_cancelled
            <=> (sessions[id].multi_face_counter = MULTI_FACE_THRESHOLD)
        /\ ~sessions[id].is_cancelled
            => sessions[id].multi_face_counter < MULTI_FACE_THRESHOLD

\* a cancelled session, fed one more multi-face frame after its cancellation:
\* the counter is still at the threshold
C33_Witness ==
    /\ Framed
    /\ lastOp.stages = << >>
    /\ lastOp.counter_before = Some(MULTI_FACE_THRESHOLD)
    /\ lastOp.frame[1].faces = 2
    /\ Last.is_cancelled
    /\ Last.multi_face_counter = MULTI_FACE_THRESHOLD

\* C34. Every active envelope carries a non-null eye_contact score: an active
\* envelope comes only from a frame that passed the eye-contact stage and all
\* stages after it, so total_processed_frames >= 1 whenever the composite
\* output is computed, and the score is eye_contact_frames /
\* total_processed_frames * 100; with total_processed_frames = 0 no envelope
\* is active.
C34_ActiveHasEyeContact ==
    /\ (Framed /\ ret.session_status = "active")
        => /\ Len(lastOp.stages) = 11
           /\ Last.total_processed_frames >= 1
           /\ ret.non_verbal_scores.eye_contact # None
           /\ ret.non_verbal_scores.eye_contact
                = round_score(Some((Last.eye_contact_frames * 1000000)
                                       \div Last.total_processed_frames))
    /\ (Framed /\ Last.total_processed_frames = 0)
        => ret.session_status # "active"

\* the first counted frame of a session, gaze aside: the envelope is active
\* and its eye_contact is 0, not null
C34_Witness ==
    /\ Framed
    /\ ret.session_status = "active"
    /\ Last.total_processed_frames = 1
    /\ Last.eye_contact_frames = 0
    /\ ret.non_verbal_scores.eye_contact = Some(0)
    /\ ret.non_verbal_scores.final_non_verbal_score = None

\* C35. In every reachable session state the accumulator sizes are ordered:
\* len(stability_scores) <= len(facial_engagement_scores)
\* <= max(0, total_processed_frames - 1), len(posture_scores)
\* <= total_processed_frames <= len(face_width_history), and
\* previous_landmarks is null iff previous_nose_pos is null.
C35_AccumulatorSizesOrdered ==
    \A id \in DOMAIN sessions :
        LET state == sessions[id]
        IN  /\ Len(state.stability_scores) <= Len(state.facial_engagement_scores)
            /\ Len(state.facial_engagement_scores)
                <= Max(0, state.total_processed_frames - 1)
            /\ Len(state.posture_scores) <= state.total_processed_frames
            /\ state.total_processed_frames <= Len(state.face_width_history)
            /\ (state.previous_landmarks = None) <=> (state.previous_nose_pos = None)

\* a session where every inequality is strict: a blink frame, a committed
\* frame without pose, then a frame whose posture stage failed
C35_Witness ==
    /\ Framed
    /\ ret.session_status = "insufficient_data"
    /\ Len(lastOp.stages) = 9
    /\ Len(Last.stability_scores) = 0
    /\ Len(Last.facial_engagement_scores) = 1
    /\ Len(Last.posture_scores) = 0
    /\ Last.total_processed_frames = 2
    /\ Len(Last.face_width_history) = 3
    /\ Last.previous_landmarks # None

\* C36. total_processed_frames of a session equals the number of process_frame
\* calls on it that returned an active envelope: a frame that ends in
\* insufficient_data, an error of the facial-expression, posture, stability or
\* commit stage included, changes neither total_processed_frames nor
\* eye_contact_frames nor any score list.
C36_TotalCountsActiveEnvelopes ==
    [][lastOp'.op = "process_frame"
        => LET id == lastOp'.id
               before == StateBefore(id)
               after == sessions'[id]
           IN  /\ after.total_processed_frames = actives'[id]
               /\ ret'.session_status = "insufficient_data"
                    => /\ after.total_processed_frames
                            = before.total_processed_frames
                       /\ after.eye_contact_frames = before.eye_contact_frames
                       /\ ScoreLists(after) = ScoreLists(before)]_vars

\* C37. The cancellation fields are set once: cancellation_reason is null iff
\* is_cancelled is false, and the cancellation_reason of a cancelled session
\* is not changed by any later operation that keeps the session, a further
\* cancel_session with another reason included.
C37_CancellationSetOnce ==
    [][\A id \in DOMAIN sessions' :
        /\ (sessions'[id].cancellation_reason = None)
            <=> ~sessions'[id].is_cancelled
        /\ (id \in DOMAIN sessions /\ sessions[id].is_cancelled)
            => /\ sessions'[id].is_cancelled
               /\ sessions'[id].cancellation_reason
                    = sessions[id].cancellation_reason]_vars

\* C38. The frame that triggers cancellation contributes nothing but the
\* integrity update: it runs stages 1-4 only, and of the session state only
\* multi_face_counter, is_cancelled and cancellation_reason change;
\* face_width_history, both eye-contact counters, the three score lists and
\* the temporal memory are as before.
C38_CancellingFrameOnlyIntegrity ==
    [][(/\ lastOp'.op = "process_frame"
        /\ ~StateBefore(lastOp'.id).is_cancelled
        /\ ret'.session_status = "cancelled")
        => LET before == StateBefore(lastOp'.id)
               after == sessions'[lastOp'.id]
           IN  /\ Len(lastOp'.stages) = 4
               /\ after = [before EXCEPT
                               !.multi_face_counter = @ + 1,
                               !.is_cancelled = TRUE,
                               !.cancellation_reason =
                                   Some("multiple_faces_detected")]
               /\ after.face_width_history = before.face_width_history
               /\ after.eye_contact_frames = before.eye_contact_frames
               /\ after.total_processed_frames = before.total_processed_frames
               /\ ScoreLists(after) = ScoreLists(before)
               /\ after.previous_landmarks = before.previous_landmarks
               /\ after.previous_nose_pos = before.previous_nose_pos]_vars

\* the cancelling frame was a two-face frame with a valid face width, on a
\* session whose earlier frames had filled face_width_history: the history
\* did not grow
C38_Witness ==
    /\ Framed
    /\ Len(lastOp.stages) = 4
    /\ ret.session_status = "cancelled"
    /\ lastOp.counter_before = Some(MULTI_FACE_THRESHOLD - 1)
    /\ lastOp.frame[1].faces = 2
    /\ lastOp.frame[1].face_width = 250
    /\ Len(Last.face_width_history) = 2
    /\ Last.multi_face_counter = MULTI_FACE_THRESHOLD

\* the frame of the last call was a blink: the eyes of its first face average
\* below the blink threshold of the eye-contact stage
BlinkSeen(seen) ==
    (seen[1].ear[1] + seen[1].ear[2]) \div 2 < EyeContactBlinkThreshold

RejectedKinds == {"None", "NotArray", "Empty", "Not3D"}

\* C40. A frame rejected by frame validation (null, wrong type, empty or not
\* 3-dimensional) on a session that is not cancelled leaves every field of the
\* session state as it was, multi_face_counter included, so that it neither
\* resets nor advances a multi-face run; its only possible effect on the
\* registry is creating the session of an unknown id.
C40_InvalidFrameChangesNothing ==
    [][(/\ lastOp'.op = "process_frame"
        /\ lastOp'.frame[1].kind \in RejectedKinds
        /\ ~StateBefore(lastOp'.id).is_cancelled)
        => LET id == lastOp'.id
           IN  /\ lastOp'.stages = <<"validate_frame">>
               /\ ret'.session_status = "insufficient_data"
               /\ sessions'[id] = StateBefore(id)
               /\ sessions'[id].multi_face_counter
                    = StateBefore(id).multi_face_counter
               /\ run'[id] = run[id]
               /\ DOMAIN sessions' = DOMAIN sessions \cup {id}
               /\ \A other \in DOMAIN sessions :
                      sessions'[other] = sessions[other]]_vars

\* an empty frame in the middle of a multi-face run: the counter stays at 7
C40_Witness ==
    /\ Framed
    /\ lastOp.frame[1].kind = "Empty"
    /\ lastOp.stages = <<"validate_frame">>
    /\ lastOp.counter_before = Some(7)
    /\ Last.multi_face_counter = 7
    /\ run[lastOp.id] = 7
    /\ ~Last.is_cancelled
    /\ ret.session_status = "insufficient_data"

====
